---- MODULE Spec2Model ----
(***************************************************************************)
(* ActionBox policy engine: the rule matcher (path-matcher.ts), the        *)
(* parameter extractor (param-extractor.ts), the global policy builder     *)
(* (policy.ts) and the tool call evaluator (matcher.ts).                   *)
(*                                                                         *)
(* JavaScript strings that the code takes apart (paths, glob patterns,     *)
(* hosts, tool names, skill IDs) are sequences of one-character strings,   *)
(* so that split, slice, startsWith, endsWith, includes, toLowerCase and   *)
(* join are computed character by character.  Strings the code only        *)
(* copies (reasons) are plain strings.                                     *)
(*                                                                         *)
(* Eight specifications: Spec drives buildGlobalPolicy and matchToolCall,  *)
(* SpecSeveral does so for calls with several paths and hosts, SpecRule    *)
(* drives the rule primitives, SpecEnforcer the ActionBoxEnforcer          *)
(* (enforcer.ts) with its loads and its capability cache, SpecClassify the *)
(* enforcer with capability classifications in flight, SpecPlugin the      *)
(* plugin's tool call hooks, SpecAgentEnd the per-skill enforcer with its  *)
(* agent_end check, and SpecStatus the log of recent violations.           *)
(***************************************************************************)
EXTENDS Integers, Sequences, FiniteSets, TLC

VARIABLES boxes, policy, call, violations, query, answer,
          capabilityCache, loading, done, mode, hook, second, classifying,
          skillBoxes, agentEnd, recentViolations, recorded

vars == <<boxes, policy, call, violations, query, answer,
          capabilityCache, loading, done, mode, hook, second, classifying,
          skillBoxes, agentEnd, recentViolations, recorded>>

\* the in-memory log of recent violations of the status display, and the
\* number of violations recorded so far
statusVars == <<recentViolations, recorded>>

\* the state of the per-skill enforcer: its boxes by skill ID, and the last
\* agent_end event with the violations checkAgentEnd returned for it
agentVars == <<skillBoxes, agentEnd>>

\* the state of the enforcer and of the plugin around it, beyond boxes and policy
enforcerVars == <<capabilityCache, loading, done, mode, hook, second, agentVars,
                  statusVars, classifying>>

-----------------------------------------------------------------------------
(* JavaScript string primitives *)

\* String.prototype.slice(n), 0 <= n
Slice(s, n) == SubSeq(s, n + 1, Len(s))

\* String.prototype.startsWith
StartsWith(s, p) == Len(p) <= Len(s) /\ SubSeq(s, 1, Len(p)) = p

\* String.prototype.endsWith
EndsWith(s, x) == Len(x) <= Len(s) /\ SubSeq(s, Len(s) - Len(x) + 1, Len(s)) = x

\* String.prototype.includes
Includes(s, w) == \E i \in 0..(Len(s) - Len(w)) : SubSeq(s, i + 1, i + Len(w)) = w

\* position of the first occurrence of character c in s, 0 when there is none
IndexOf(s, c) ==
  IF \E i \in 1..Len(s) : s[i] = c
  THEN CHOOSE i \in 1..Len(s) : s[i] = c /\ \A j \in 1..(i - 1) : s[j] # c
  ELSE 0

UpperCaseLetters ==
  <<"A", "B", "C", "D", "E", "F", "G", "H", "I", "J", "K", "L", "M", "N", "O",
  "P", "Q", "R", "S", "T", "U", "V", "W", "X", "Y", "Z">>
LowerCaseLetters ==
  <<"a", "b", "c", "d", "e", "f", "g", "h", "i", "j", "k", "l", "m", "n", "o",
  "p", "q", "r", "s", "t", "u", "v", "w", "x", "y", "z">>

LowerOf(c) ==
  IF \E i \in 1..26 : UpperCaseLetters[i] = c
  THEN LowerCaseLetters[CHOOSE i \in 1..26 : UpperCaseLetters[i] = c]
  ELSE c

\* String.prototype.toLowerCase
ToLowerCase(s) == [i \in 1..Len(s) |-> LowerOf(s[i])]

\* String.prototype.split(sep) for a one-character separator
RECURSIVE Split(_, _)
Split(s, sep) ==
  LET i == IndexOf(s, sep)
  IN IF i = 0 THEN <<s>>
     ELSE <<SubSeq(s, 1, i - 1)>> \o Split(SubSeq(s, i + 1, Len(s)), sep)

\* Array.prototype.join(sep)
RECURSIVE Join(_, _)
Join(list, sep) ==
  IF list = <<>> THEN <<>>
  ELSE IF Len(list) = 1 THEN list[1]
  ELSE list[1] \o sep \o Join(Tail(list), sep)

\* [...new Set(list)]: the first occurrence of each element, in order
RECURSIVE Dedupe(_)
Dedupe(list) ==
  IF list = <<>> THEN <<>>
  ELSE LET front == Dedupe(SubSeq(list, 1, Len(list) - 1))
           last == list[Len(list)]
       IN IF \E i \in 1..Len(front) : front[i] = last THEN front
          ELSE Append(front, last)

-----------------------------------------------------------------------------
(* minimatch(path, pattern, {dot: true}) for patterns made of literal      *)
(* characters, "*" and whole-segment "**"                                  *)

GLOBSTAR == <<"*", "*">>
DotSegments == {<<".">>, <<".", ".">>}

\* one path segment against one pattern segment: "*" is any run of characters
RECURSIVE globChars(_, _)
globChars(seg, pat) ==
  IF pat = <<>> THEN seg = <<>>
  ELSE IF Head(pat) = "*"
       THEN globChars(seg, Tail(pat)) \/ (seg # <<>> /\ globChars(Tail(seg), pat))
       ELSE seg # <<>> /\ Head(seg) = Head(pat) /\ globChars(Tail(seg), Tail(pat))

\* a segment with magic never matches the empty segment; one that starts with
\* "*" never matches "." or "..", and with dot: true does match other dotfiles
segmentMatches(seg, pat) ==
  IF \A i \in 1..Len(pat) : pat[i] # "*" THEN seg = pat
  ELSE /\ seg # <<>>
       /\ (Head(pat) = "*" => seg \notin DotSegments)
       /\ globChars(seg, pat)

RECURSIVE matchOne(_, _)
RECURSIVE globstarSwallow(_, _)
\* minimatch's matchOne over the "/"-split path and pattern
matchOne(file, pattern) ==
  IF pattern = <<>> THEN file = <<>> \/ file = << <<>> >>
  ELSE IF file = <<>> THEN FALSE
  ELSE IF Head(pattern) = GLOBSTAR
       THEN IF Len(pattern) = 1
            THEN \A i \in 1..Len(file) : file[i] \notin DotSegments
            ELSE globstarSwallow(file, Tail(pattern))
       ELSE /\ segmentMatches(Head(file), Head(pattern))
            /\ matchOne(Tail(file), Tail(pattern))

globstarSwallow(file, rest) ==
  IF file = <<>> THEN FALSE
  ELSE IF matchOne(file, rest) THEN TRUE
  ELSE IF Head(file) \in DotSegments THEN FALSE
  ELSE globstarSwallow(Tail(file), rest)

minimatch(filePath, pattern) ==
  IF pattern = <<>> THEN filePath = <<>>
  ELSE matchOne(Split(filePath, "/"), Split(pattern, "/"))

-----------------------------------------------------------------------------
(* path-matcher.ts *)

\* the null return value of the two access checks; a non-null value stands for
\* the message string, which names the path or host and, for a denied host, the
\* pattern that matched
Null == [msg |-> "null", arg |-> <<>>, pattern |-> <<>>]

pathMatchesAny(filePath, patterns) ==
  \E i \in 1..Len(patterns) : minimatch(filePath, patterns[i])

\* mutant: the allow lists are consulted before the denied patterns
checkFilesystemAccess_allowFirst(filePath, operation, rules) ==
  IF operation = "read" /\ pathMatchesAny(filePath, rules.readable) THEN Null
  ELSE IF operation = "write" /\ pathMatchesAny(filePath, rules.writable) THEN Null
  ELSE IF pathMatchesAny(filePath, rules.denied)
  THEN [msg |-> "matches a denied filesystem pattern", arg |-> filePath, pattern |-> <<>>]
  ELSE IF operation = "read" /\ Len(rules.readable) > 0
  THEN [msg |-> "is not covered by any readable pattern", arg |-> filePath, pattern |-> <<>>]
  ELSE IF operation = "write" /\ Len(rules.writable) > 0
  THEN [msg |-> "is not covered by any writable pattern", arg |-> filePath, pattern |-> <<>>]
  ELSE Null

checkFilesystemAccess(filePath, operation, rules) ==
  IF pathMatchesAny(filePath, rules.denied)
  THEN [msg |-> "matches a denied filesystem pattern", arg |-> filePath, pattern |-> <<>>]
  ELSE IF /\ operation = "read"
          /\ Len(rules.readable) > 0
          /\ ~pathMatchesAny(filePath, rules.readable)
  THEN [msg |-> "is not covered by any readable pattern", arg |-> filePath, pattern |-> <<>>]
  ELSE IF /\ operation = "write"
          /\ Len(rules.writable) > 0
          /\ ~pathMatchesAny(filePath, rules.writable)
  THEN [msg |-> "is not covered by any writable pattern", arg |-> filePath, pattern |-> <<>>]
  ELSE Null

\* mutant: the wildcard suffix is taken without its leading dot
hostMatches_noDot(host, pattern) ==
  IF pattern = <<"*">> THEN TRUE
  ELSE IF StartsWith(pattern, <<"*", ".">>)
  THEN LET suffix == Slice(pattern, 2) IN EndsWith(host, suffix)
  ELSE host = pattern

hostMatches(host, pattern) ==
  IF pattern = <<"*">> THEN TRUE
  ELSE IF StartsWith(pattern, <<"*", ".">>)
  THEN LET suffix == Slice(pattern, 1) IN EndsWith(host, suffix)
  ELSE host = pattern

\* the first denied pattern the host matches, 0 when there is none
firstDeniedHost(host, deniedHosts) ==
  IF \E i \in 1..Len(deniedHosts) : hostMatches(host, deniedHosts[i])
  THEN CHOOSE i \in 1..Len(deniedHosts) :
         /\ hostMatches(host, deniedHosts[i])
         /\ \A j \in 1..(i - 1) : ~hostMatches(host, deniedHosts[j])
  ELSE 0

\* mutant: a host on the allow list is accepted before the deny list is consulted
checkNetworkAccess_allowFirst(host, rules) ==
  IF \E i \in 1..Len(rules.allowedHosts) : hostMatches(host, rules.allowedHosts[i])
  THEN Null
  ELSE IF firstDeniedHost(host, rules.deniedHosts) # 0
  THEN [msg |-> "matches denied pattern", arg |-> host,
        pattern |-> rules.deniedHosts[firstDeniedHost(host, rules.deniedHosts)]]
  ELSE IF Len(rules.allowedHosts) > 0
  THEN [msg |-> "is not in the allowed hosts list", arg |-> host, pattern |-> <<>>]
  ELSE Null

checkNetworkAccess(host, rules) ==
  IF firstDeniedHost(host, rules.deniedHosts) # 0
  THEN [msg |-> "matches denied pattern", arg |-> host,
        pattern |-> rules.deniedHosts[firstDeniedHost(host, rules.deniedHosts)]]
  ELSE IF /\ Len(rules.allowedHosts) > 0
          /\ ~\E i \in 1..Len(rules.allowedHosts) : hostMatches(host, rules.allowedHosts[i])
  THEN [msg |-> "is not in the allowed hosts list", arg |-> host, pattern |-> <<>>]
  ELSE Null

-----------------------------------------------------------------------------
(* param-extractor.ts *)

\* a value of the params record: a string, a number, or undefined (key absent)
Undefined == [type |-> "undefined", str |-> <<>>, num |-> 0]
Str(s) == [type |-> "string", str |-> s, num |-> 0]
Num(n) == [type |-> "number", str |-> <<>>, num |-> n]

\* params[key]
Get(params, key) == IF key \in DOMAIN params THEN params[key] ELSE Undefined

\* JavaScript truthiness of a params value
Truthy(v) == (v.type = "string" /\ Len(v.str) > 0) \/ (v.type = "number" /\ v.num # 0)

PATH_KEYS == <<"path", "file_path", "filePath", "file", "filename", "directory", "dir">>
URL_KEYS == <<"url", "uri", "endpoint", "href">>
HOST_KEYS == <<"host", "hostname", "server", "domain">>

WRITE_TOOL_PATTERNS ==
  <<<<"w", "r", "i", "t", "e">>,
     <<"c", "r", "e", "a", "t", "e">>,
     <<"e", "d", "i", "t">>,
     <<"p", "a", "t", "c", "h">>,
     <<"d", "e", "l", "e", "t", "e">>,
     <<"m", "o", "v", "e">>,
     <<"c", "o", "p", "y">>,
     <<"m", "k", "d", "i", "r">>,
     <<"r", "m">>,
     <<"s", "a", "v", "e">>>>

BASH == <<"b", "a", "s", "h">>
SHELL == <<"s", "h", "e", "l", "l">>
Quotes == {"'", "\""}

\* the non-empty string values found under the given keys, in key order
stringValues(params, keys) ==
  LET hit == SelectSeq(keys, LAMBDA k : Get(params, k).type = "string"
                                           /\ Len(Get(params, k).str) > 0)
  IN [i \in 1..Len(hit) |-> Get(params, hit[i]).str]

\* cmd.match(/(?:["'])(\/[^"']+)(?:["'])/g) with the quotes removed from each
\* match: a quote, "/", one or more non-quote characters, a quote; matches
\* are leftmost and do not overlap
RECURSIVE quotedPaths(_)
quotedPaths(cmd) ==
  IF cmd = <<>> THEN <<>>
  ELSE LET rest == Tail(cmd)
           close == IF \E i \in 1..Len(rest) : rest[i] \in Quotes
                    THEN CHOOSE i \in 1..Len(rest) :
                           rest[i] \in Quotes /\ \A j \in 1..(i - 1) : rest[j] \notin Quotes
                    ELSE 0
       IN IF Head(cmd) \in Quotes /\ Len(rest) >= 1 /\ rest[1] = "/" /\ close >= 3
          THEN <<SubSeq(rest, 1, close - 1)>>
                 \o quotedPaths(SubSeq(rest, close + 1, Len(rest)))
          ELSE quotedPaths(rest)

extractPaths(toolName, params) ==
  LET keyed == stringValues(params, PATH_KEYS)
      lower == ToLowerCase(toolName)
      cmd == IF Get(params, "command").type # "undefined"
             THEN Get(params, "command") ELSE Get(params, "cmd")
      fromCommand == IF (Includes(lower, BASH) \/ Includes(lower, SHELL))
                        /\ cmd.type = "string"
                     THEN quotedPaths(cmd.str) ELSE <<>>
      fromGlob == IF Truthy(Get(params, "pattern")) /\ Get(params, "path").type = "string"
                  THEN <<Get(params, "path").str>> ELSE <<>>
  IN Dedupe(keyed \o fromCommand \o fromGlob)

\* new URL(val).hostname for strings of the form scheme://host or
\* scheme://host/rest; <<>> stands for the TypeError new URL throws on a string
\* that has no "://" or no host
NoHost == <<>>
urlHostname(val) ==
  LET colon == IndexOf(val, ":")
      after == SubSeq(val, colon + 1, Len(val))
      authority == Slice(after, 2)
      slash == IndexOf(authority, "/")
      host == IF slash = 0 THEN authority ELSE SubSeq(authority, 1, slash - 1)
  IN IF colon <= 1 \/ ~StartsWith(after, <<"/", "/">>) THEN NoHost
     ELSE ToLowerCase(host)

extractHosts(params) ==
  LET urls == stringValues(params, URL_KEYS)
      parsed == SelectSeq(urls, LAMBDA u : urlHostname(u) # NoHost)
      fromUrls == [i \in 1..Len(parsed) |-> urlHostname(parsed[i])]
      fromHosts == stringValues(params, HOST_KEYS)
  IN Dedupe(fromUrls \o fromHosts)

\* mutant: the tool name is searched as written, without lowercasing
inferFileOperation_caseSensitive(toolName) ==
  IF \E i \in 1..Len(WRITE_TOOL_PATTERNS) : Includes(toolName, WRITE_TOOL_PATTERNS[i])
  THEN "write" ELSE "read"

inferFileOperation(toolName) ==
  LET lower == ToLowerCase(toolName)
  IN IF \E i \in 1..Len(WRITE_TOOL_PATTERNS) : Includes(lower, WRITE_TOOL_PATTERNS[i])
     THEN "write" ELSE "read"

-----------------------------------------------------------------------------
(* policy.ts *)

\* Map.get(key) ?? []
GetList(map, key) == IF key \in DOMAIN map THEN map[key] ELSE <<>>

\* lines 42-47: index one box's allowed tools
RECURSIVE indexAllowedTools(_, _, _)
indexAllowedTools(tools, skillId, acc) ==
  IF tools = <<>> THEN acc
  ELSE LET name == Head(tools).name
           existing == GetList(acc.toolIndex, name)
       IN indexAllowedTools(Tail(tools), skillId,
            [acc EXCEPT !.allAllowedToolNames = @ \cup {name},
                        !.toolIndex = (name :> Append(existing, skillId)) @@ @])

\* mutant: a later denial replaces the entry instead of joining it
RECURSIVE collectDeniedTools_overwrite(_, _, _)
collectDeniedTools_overwrite(tools, skillId, acc) ==
  IF tools = <<>> THEN acc
  ELSE LET tool == Head(tools)
           entry == [reason |-> tool.reason, denyingSkills |-> <<skillId>>]
       IN collectDeniedTools_overwrite(Tail(tools), skillId,
            [acc EXCEPT !.allDeniedTools = (tool.name :> entry) @@ @])

\* lines 50-60: collect one box's denied tools
RECURSIVE collectDeniedTools(_, _, _)
collectDeniedTools(tools, skillId, acc) ==
  IF tools = <<>> THEN acc
  ELSE LET tool == Head(tools)
           all == acc.allDeniedTools
           entry == IF tool.name \in DOMAIN all
                    THEN [all[tool.name] EXCEPT !.denyingSkills = Append(@, skillId)]
                    ELSE [reason |-> tool.reason, denyingSkills |-> <<skillId>>]
       IN collectDeniedTools(Tail(tools), skillId,
            [acc EXCEPT !.allDeniedTools = (tool.name :> entry) @@ @])

\* lines 38-71: the loop over the boxes
RECURSIVE mergeBoxes(_, _)
mergeBoxes(list, acc) ==
  IF list = <<>> THEN acc
  ELSE LET box == Head(list)
           a1 == [acc EXCEPT !.boxMap = (box.skillId :> box) @@ @]
           a2 == indexAllowedTools(box.allowedTools, box.skillId, a1)
           a3 == collectDeniedTools(box.deniedTools, box.skillId, a2)
           a4 == [a3 EXCEPT !.deniedPaths = Dedupe(@ \o box.filesystem.denied),
                            !.deniedHosts = Dedupe(@ \o box.network.deniedHosts)]
       IN mergeBoxes(Tail(list), a4)

EmptyMap == [k \in {} |-> <<>>]

\* mutant: every denied tool is globally denied, allowed elsewhere or not
globalDeniedToolsOf_all(allDeniedTools, allAllowedToolNames) ==
  [t \in DOMAIN allDeniedTools |-> allDeniedTools[t]]

\* lines 73-79: denied by any contract and not allowed by any contract
globalDeniedToolsOf(allDeniedTools, allAllowedToolNames) ==
  [t \in {n \in DOMAIN allDeniedTools : n \notin allAllowedToolNames} |-> allDeniedTools[t]]

\* the union of the contracts' capability lists (GlobalPolicy.allAllowedCapabilities
\* and allDeniedCapabilities)
RECURSIVE collectCapabilities(_)
collectCapabilities(list) ==
  IF list = <<>> THEN [allowed |-> <<>>, denied |-> <<>>]
  ELSE LET front == collectCapabilities(SubSeq(list, 1, Len(list) - 1))
           box == list[Len(list)]
       IN [allowed |-> front.allowed \o box.allowedCapabilities,
           denied |-> front.denied \o box.deniedCapabilities]

buildGlobalPolicy(list) ==
  LET acc == mergeBoxes(list, [boxMap |-> EmptyMap, toolIndex |-> EmptyMap,
                               allDeniedTools |-> EmptyMap, allAllowedToolNames |-> {},
                               deniedPaths |-> <<>>, deniedHosts |-> <<>>])
      caps == collectCapabilities(list)
  IN [globalDeniedTools |-> globalDeniedToolsOf(acc.allDeniedTools, acc.allAllowedToolNames),
      toolIndex |-> acc.toolIndex,
      globalDeniedPaths |-> acc.deniedPaths,
      globalDeniedHosts |-> acc.deniedHosts,
      allAllowedCapabilities |-> caps.allowed,
      allDeniedCapabilities |-> caps.denied,
      boxes |-> acc.boxMap]

attributeToolToSkills(toolName, pol) == GetList(pol.toolIndex, toolName)

-----------------------------------------------------------------------------
(* matcher.ts *)

UNKNOWN == <<"u", "n", "k", "n", "o", "w", "n">>
CommaSpace == <<",", " ">>
NoDetails == [kind |-> "none", value |-> <<>>, claimingSkills |-> <<>>]

\* createViolation, without the random id and the timestamp
createViolation(type, severity, skillId, toolName, message, rule, details) ==
  [type |-> type, severity |-> severity, skillId |-> skillId, toolName |-> toolName,
   message |-> message, rule |-> rule, details |-> details]

\* the capabilityCache argument of matchToolCall; NoCache is the omitted argument
NoCache == [supplied |-> FALSE, entries |-> EmptyMap]
NoCapability == "undefined"

\* lines 33-47: the violation for a globally denied tool
deniedToolViolation(toolName, denied) ==
  createViolation("denied_tool", "critical", Join(denied.denyingSkills, CommaSpace), toolName,
    [text |-> "is explicitly denied", arg |-> toolName, note |-> denied.reason,
     pattern |-> <<>>],
    [text |-> "deniedTools", arg |-> toolName], NoDetails)

\* lines 52-61
unlistedToolViolation(toolName) ==
  createViolation("unlisted_tool", "high", UNKNOWN, toolName,
    [text |-> "is not listed in any loaded ActionBox contract", arg |-> toolName,
     note |-> "", pattern |-> <<>>],
    [text |-> "allowedTools (all contracts)", arg |-> <<>>], NoDetails)

\* mutant: every refusal is reported as a denied capability
capabilityFallback_alwaysDenied(toolName, pol, cache) ==
  IF /\ Len(pol.allAllowedCapabilities) + Len(pol.allDeniedCapabilities) > 0
     /\ toolName \in DOMAIN cache.entries
  THEN LET c == cache.entries[toolName]
       IN IF c.allowed THEN <<>>
          ELSE <<createViolation("denied_capability", "critical", UNKNOWN, toolName,
                   [text |-> "matches denied capability", arg |-> toolName,
                    note |-> c.matchedCapability, pattern |-> <<>>],
                   [text |-> "deniedCapabilities", arg |-> <<>>], NoDetails)>>
  ELSE <<unlistedToolViolation(toolName)>>

\* the capability fallback for a tool no contract claims, when a cache is supplied:
\* the cached classification decides, and without capability lists or without a
\* cache entry the tool is reported as unlisted
capabilityFallback(toolName, pol, cache) ==
  IF /\ Len(pol.allAllowedCapabilities) + Len(pol.allDeniedCapabilities) > 0
     /\ toolName \in DOMAIN cache.entries
  THEN LET c == cache.entries[toolName]
       IN IF c.allowed THEN <<>>
          ELSE IF c.matchedCapability # NoCapability
          THEN <<createViolation("denied_capability", "critical", UNKNOWN, toolName,
                   [text |-> "matches denied capability", arg |-> toolName,
                    note |-> c.matchedCapability, pattern |-> <<>>],
                   [text |-> "deniedCapabilities", arg |-> <<>>], NoDetails)>>
          ELSE <<createViolation("unlisted_capability", "high", UNKNOWN, toolName,
                   [text |-> "does not match any allowed capability", arg |-> toolName,
                    note |-> "", pattern |-> <<>>],
                   [text |-> "allowedCapabilities", arg |-> <<>>], NoDetails)>>
  ELSE <<unlistedToolViolation(toolName)>>

\* mutant: the check does not ask whether any contract is loaded
unlistedToolCheck_noSizeGuard(toolName, pol, claimingSkills, cache) ==
  IF Len(claimingSkills) = 0
  THEN IF cache.supplied THEN capabilityFallback(toolName, pol, cache)
       ELSE <<unlistedToolViolation(toolName)>>
  ELSE <<>>

\* mutant: the check does not ask whether a contract claims the tool
unlistedToolCheck_noClaimGuard(toolName, pol, claimingSkills, cache) ==
  IF Cardinality(DOMAIN pol.boxes) > 0
  THEN IF cache.supplied THEN capabilityFallback(toolName, pol, cache)
       ELSE <<unlistedToolViolation(toolName)>>
  ELSE <<>>

\* lines 49-62: is the tool known by any contract
unlistedToolCheck(toolName, pol, claimingSkills, cache) ==
  IF Len(claimingSkills) = 0 /\ Cardinality(DOMAIN pol.boxes) > 0
  THEN IF cache.supplied THEN capabilityFallback(toolName, pol, cache)
       ELSE <<unlistedToolViolation(toolName)>>
  ELSE <<>>

\* claimingSkills[0] ?? "unknown"
firstClaimant(claimingSkills) ==
  IF Len(claimingSkills) > 0 THEN claimingSkills[1] ELSE UNKNOWN

\* mutant: only the denied patterns of the claiming contracts are consulted
globalDeniedPathCheck_claimantsOnly(toolName, paths, pol, claimingSkills) ==
  LET hit == SelectSeq(paths, LAMBDA f :
               \E i \in 1..Len(claimingSkills) :
                 pathMatchesAny(f, pol.boxes[claimingSkills[i]].filesystem.denied))
  IN [i \in 1..Len(hit) |->
       createViolation("filesystem_denied", "critical", firstClaimant(claimingSkills), toolName,
         [text |-> "matches a globally denied filesystem pattern", arg |-> hit[i], note |-> "",
          pattern |-> <<>>],
         [text |-> "filesystem.denied (global)", arg |-> <<>>],
         [kind |-> "path", value |-> hit[i], claimingSkills |-> <<>>])]

\* lines 68-83: global denied paths
globalDeniedPathCheck(toolName, paths, pol, claimingSkills) ==
  LET hit == SelectSeq(paths, LAMBDA f : pathMatchesAny(f, pol.globalDeniedPaths))
  IN [i \in 1..Len(hit) |->
       createViolation("filesystem_denied", "critical", firstClaimant(claimingSkills), toolName,
         [text |-> "matches a globally denied filesystem pattern", arg |-> hit[i], note |-> "",
          pattern |-> <<>>],
         [text |-> "filesystem.denied (global)", arg |-> <<>>],
         [kind |-> "path", value |-> hit[i], claimingSkills |-> <<>>])]

\* lines 87-90 and 145-148: the global network check of one host
globalNetResult(host, pol) ==
  checkNetworkAccess(host, [allowedHosts |-> <<>>, deniedHosts |-> pol.globalDeniedHosts])

\* lines 85-104: global denied hosts
globalDeniedHostCheck(toolName, hosts, pol, claimingSkills) ==
  LET hit == SelectSeq(hosts, LAMBDA h : globalNetResult(h, pol) # Null)
  IN [i \in 1..Len(hit) |->
       createViolation("network_violation", "critical", firstClaimant(claimingSkills), toolName,
         [text |-> globalNetResult(hit[i], pol).msg, arg |-> hit[i], note |-> "",
          pattern |-> globalNetResult(hit[i], pol).pattern],
         [text |-> "network.deniedHosts (global)", arg |-> <<>>],
         [kind |-> "host", value |-> hit[i], claimingSkills |-> <<>>])]

\* mutant: every claiming contract must permit the path
anyContractAllowsPath_all(filePath, operation, pol, claimingSkills) ==
  \A i \in 1..Len(claimingSkills) :
    checkFilesystemAccess(filePath, operation, pol.boxes[claimingSkills[i]].filesystem) = Null

\* lines 115-123: does any claiming contract permit the path
anyContractAllowsPath(filePath, operation, pol, claimingSkills) ==
  \E i \in 1..Len(claimingSkills) :
    checkFilesystemAccess(filePath, operation, pol.boxes[claimingSkills[i]].filesystem) = Null

\* mutant: a path already flagged as globally denied is checked again
perSkillPathCheck_noSkip(toolName, paths, pol, claimingSkills) ==
  LET operation == inferFileOperation(toolName)
      hit == SelectSeq(paths, LAMBDA f :
               ~anyContractAllowsPath(f, operation, pol, claimingSkills))
  IN [i \in 1..Len(hit) |->
       createViolation(
         IF operation = "write" THEN "filesystem_write_violation"
                                ELSE "filesystem_read_violation",
         "high", Join(claimingSkills, CommaSpace), toolName,
         [text |-> IF operation = "write"
                   THEN "Write access is not permitted by any claiming contract"
                   ELSE "Read access is not permitted by any claiming contract",
          arg |-> hit[i], note |-> "", pattern |-> <<>>],
         [text |-> IF operation = "write" THEN "filesystem.writable" ELSE "filesystem.readable",
          arg |-> <<>>],
         [kind |-> "path", value |-> hit[i], claimingSkills |-> claimingSkills])]

\* lines 108-140: per-skill filesystem checks
perSkillPathCheck(toolName, paths, pol, claimingSkills) ==
  LET operation == inferFileOperation(toolName)
      hit == SelectSeq(paths, LAMBDA f :
               /\ ~pathMatchesAny(f, pol.globalDeniedPaths)
               /\ ~anyContractAllowsPath(f, operation, pol, claimingSkills))
  IN [i \in 1..Len(hit) |->
       createViolation(
         IF operation = "write" THEN "filesystem_write_violation"
                                ELSE "filesystem_read_violation",
         "high", Join(claimingSkills, CommaSpace), toolName,
         [text |-> IF operation = "write"
                   THEN "Write access is not permitted by any claiming contract"
                   ELSE "Read access is not permitted by any claiming contract",
          arg |-> hit[i], note |-> "", pattern |-> <<>>],
         [text |-> IF operation = "write" THEN "filesystem.writable" ELSE "filesystem.readable",
          arg |-> <<>>],
         [kind |-> "path", value |-> hit[i], claimingSkills |-> claimingSkills])]

\* lines 153-161: does any claiming contract permit the host
anyContractAllowsHost(host, pol, claimingSkills) ==
  \E i \in 1..Len(claimingSkills) :
    checkNetworkAccess(host, pol.boxes[claimingSkills[i]].network) = Null

\* lines 142-176: per-skill network checks
perSkillHostCheck(toolName, hosts, pol, claimingSkills) ==
  LET hit == SelectSeq(hosts, LAMBDA h :
               /\ globalNetResult(h, pol) = Null
               /\ ~anyContractAllowsHost(h, pol, claimingSkills))
  IN [i \in 1..Len(hit) |->
       createViolation("network_violation", "high", Join(claimingSkills, CommaSpace), toolName,
         [text |-> "is not permitted by any claiming contract", arg |-> hit[i], note |-> "",
          pattern |-> <<>>],
         [text |-> "network.allowedHosts", arg |-> <<>>],
         [kind |-> "host", value |-> hit[i], claimingSkills |-> claimingSkills])]

\* mutant: the evaluation goes on after the denied-tool violation
matchToolCall_noReturn(toolName, params, pol, cache) ==
  LET claimingSkills == attributeToolToSkills(toolName, pol)
      paths == extractPaths(toolName, params)
      hosts == extractHosts(params)
  IN (IF toolName \in DOMAIN pol.globalDeniedTools
      THEN <<deniedToolViolation(toolName, pol.globalDeniedTools[toolName])>>
      ELSE unlistedToolCheck(toolName, pol, claimingSkills, cache))
     \o globalDeniedPathCheck(toolName, paths, pol, claimingSkills)
     \o globalDeniedHostCheck(toolName, hosts, pol, claimingSkills)
     \o (IF Len(claimingSkills) > 0
         THEN perSkillPathCheck(toolName, paths, pol, claimingSkills)
              \o perSkillHostCheck(toolName, hosts, pol, claimingSkills)
         ELSE <<>>)

\* mutant: for a tool no contract claims, only the tool-level step runs
matchToolCall_unclaimedStops(toolName, params, pol, cache) ==
  LET claimingSkills == attributeToolToSkills(toolName, pol)
      paths == extractPaths(toolName, params)
      hosts == extractHosts(params)
  IN IF toolName \in DOMAIN pol.globalDeniedTools
     THEN <<deniedToolViolation(toolName, pol.globalDeniedTools[toolName])>>
     ELSE IF Len(claimingSkills) = 0
     THEN unlistedToolCheck(toolName, pol, claimingSkills, cache)
     ELSE globalDeniedPathCheck(toolName, paths, pol, claimingSkills)
          \o globalDeniedHostCheck(toolName, hosts, pol, claimingSkills)
          \o perSkillPathCheck(toolName, paths, pol, claimingSkills)
          \o perSkillHostCheck(toolName, hosts, pol, claimingSkills)

\* mutant: the per-claimant checks also run when no contract claims the tool
matchToolCall_perSkillAlways(toolName, params, pol, cache) ==
  IF toolName \in DOMAIN pol.globalDeniedTools
  THEN <<deniedToolViolation(toolName, pol.globalDeniedTools[toolName])>>
  ELSE LET claimingSkills == attributeToolToSkills(toolName, pol)
           paths == extractPaths(toolName, params)
           hosts == extractHosts(params)
       IN unlistedToolCheck(toolName, pol, claimingSkills, cache)
          \o globalDeniedPathCheck(toolName, paths, pol, claimingSkills)
          \o globalDeniedHostCheck(toolName, hosts, pol, claimingSkills)
          \o perSkillPathCheck(toolName, paths, pol, claimingSkills)
          \o perSkillHostCheck(toolName, hosts, pol, claimingSkills)

\* mutant: each path is dealt with fully before the hosts are looked at
matchToolCall_pathsFirst(toolName, params, pol, cache) ==
  IF toolName \in DOMAIN pol.globalDeniedTools
  THEN <<deniedToolViolation(toolName, pol.globalDeniedTools[toolName])>>
  ELSE LET claimingSkills == attributeToolToSkills(toolName, pol)
           paths == extractPaths(toolName, params)
           hosts == extractHosts(params)
       IN unlistedToolCheck(toolName, pol, claimingSkills, cache)
          \o globalDeniedPathCheck(toolName, paths, pol, claimingSkills)
          \o (IF Len(claimingSkills) > 0
              THEN perSkillPathCheck(toolName, paths, pol, claimingSkills) ELSE <<>>)
          \o globalDeniedHostCheck(toolName, hosts, pol, claimingSkills)
          \o (IF Len(claimingSkills) > 0
              THEN perSkillHostCheck(toolName, hosts, pol, claimingSkills) ELSE <<>>)

matchToolCall(toolName, params, pol, cache) ==
  IF toolName \in DOMAIN pol.globalDeniedTools
  THEN <<deniedToolViolation(toolName, pol.globalDeniedTools[toolName])>>
  ELSE LET claimingSkills == attributeToolToSkills(toolName, pol)
           paths == extractPaths(toolName, params)
           hosts == extractHosts(params)
       IN unlistedToolCheck(toolName, pol, claimingSkills, cache)
          \o globalDeniedPathCheck(toolName, paths, pol, claimingSkills)
          \o globalDeniedHostCheck(toolName, hosts, pol, claimingSkills)
          \o (IF Len(claimingSkills) > 0
              THEN perSkillPathCheck(toolName, paths, pol, claimingSkills)
                   \o perSkillHostCheck(toolName, hosts, pol, claimingSkills)
              ELSE <<>>)

-----------------------------------------------------------------------------
(* The inputs the model is explored on *)

\* "Rm"
Rm == <<"R", "m">>
\* "Bash"
Bash == <<"B", "a", "s", "h">>
\* "A"
SkillA == <<"A">>
\* "B"
SkillB == <<"B">>
\* "C"
SkillC == <<"C">>
\* "/s/.k"
PathKey == <<"/", "s", "/", ".", "k">>
\* "/d/x"
PathData == <<"/", "d", "/", "x">>
\* "/c/x"
PathConf == <<"/", "c", "/", "x">>
\* "/e"
PathEtc == <<"/", "e">>
\* "/s/**"
PatSecret == <<"/", "s", "/", "*", "*">>
\* "/s/*"
PatSecretFlat == <<"/", "s", "/", "*">>
\* "/d/**"
PatData == <<"/", "d", "/", "*", "*">>
\* "/d/x"
PatDataX == <<"/", "d", "/", "x">>
\* "/c/*"
PatConf == <<"/", "c", "/", "*">>
\* "a.o"
HostOnion == <<"a", ".", "o">>
\* "x.g"
HostSub == <<"x", ".", "g">>
\* "g"
HostBare == <<"g">>
\* "e"
HostEvil == <<"e">>
\* "*.o"
HPatOnion == <<"*", ".", "o">>
\* "*.g"
HPatSub == <<"*", ".", "g">>
\* "g"
HPatBare == <<"g">>
\* "*"
HPatAny == <<"*">>
\* "h://a.o/k"
UrlOnion == <<"h", ":", "/", "/", "a", ".", "o", "/", "k">>
\* "h://X.g"
UrlSub == <<"h", ":", "/", "/", "X", ".", "g">>
\* "a.o"
NotAUrl == <<"a", ".", "o">>
\* "c '/s/.k' '/d/x'"
CmdCat == <<"c", " ", "'", "/", "s", "/", ".", "k", "'", " ", "'", "/", "d", "/", "x", "'">>
\* "*"
GlobStar == <<"*">>

MaxBoxes == 2
MaxPatterns == 1
MaxHostLen == 3

ToolNames == {Rm, Bash}
SkillIds == {SkillA, SkillB, SkillC}

\* the sequences without repetition of at most n elements of S
RECURSIVE SeqsUpTo(_, _)
SeqsUpTo(S, n) ==
  IF n = 0 THEN {<<>>}
  ELSE LET shorter == SeqsUpTo(S, n - 1)
       IN shorter \cup {Append(q, x) : q \in shorter, x \in S}

DistinctSeqs(S, n) ==
  {q \in SeqsUpTo(S, n) : \A i, j \in 1..Len(q) : i # j => q[i] # q[j]}

\* filesystem rules, network rules and capability lists of each skill's contract:
\* A restricts everything, B allows other places and denies nothing, C has no rules
RulesOf(skillId) ==
  CASE skillId = SkillA ->
         [filesystem |-> [readable |-> <<PatData>>, writable |-> <<PatDataX>>,
                          denied |-> <<PatSecret>>],
          network |-> [allowedHosts |-> <<HPatSub>>, deniedHosts |-> <<HPatOnion>>],
          allowedCapabilities |-> <<"Calendar read access">>,
          deniedCapabilities |-> <<"Shell or command execution">>]
    [] skillId = SkillB ->
         [filesystem |-> [readable |-> <<PatConf, PatSecretFlat>>, writable |-> <<>>,
                          denied |-> <<>>],
          network |-> [allowedHosts |-> <<HPatBare>>, deniedHosts |-> <<>>],
          allowedCapabilities |-> <<>>, deniedCapabilities |-> <<>>]
    [] OTHER ->
         [filesystem |-> [readable |-> <<>>, writable |-> <<>>, denied |-> <<>>],
          network |-> [allowedHosts |-> <<>>, deniedHosts |-> <<>>],
          allowedCapabilities |-> <<>>, deniedCapabilities |-> <<>>]

\* the reason of a denial names the denying contract
ReasonOf(skillId) ==
  CASE skillId = SkillA -> "not needed by A"
    [] skillId = SkillB -> "not needed by B"
    [] OTHER -> "not needed by C"

\* a contract lists at most one allowed and at most one denied tool
ToolLists == {<<>>} \cup {<<t>> : t \in ToolNames}

\* the contracts (ActionBox values) a loader may supply; the contract of skill C
\* has no rules and denies no tool
Contracts ==
  { [skillId |-> x[1],
     allowedTools |-> [i \in 1..Len(x[2]) |-> [name |-> x[2][i], reason |-> "needed"]],
     deniedTools |-> [i \in 1..Len(x[3]) |-> [name |-> x[3][i], reason |-> ReasonOf(x[1])]],
     filesystem |-> RulesOf(x[1]).filesystem, network |-> RulesOf(x[1]).network,
     allowedCapabilities |-> RulesOf(x[1]).allowedCapabilities,
     deniedCapabilities |-> RulesOf(x[1]).deniedCapabilities] :
    x \in {y \in SkillIds \X ToolLists \X ToolLists : y[1] = SkillC => y[3] = <<>>} }

\* params records of tool calls
ParamsFs ==
  { EmptyMap,
    "path" :> Str(PathKey),
    "path" :> Str(PathData),
    "path" :> Str(PathConf),
    "path" :> Str(PathEtc),
    "path" :> Str(<<>>),
    "path" :> Num(7),
    ("path" :> Str(PathKey)) @@ ("file" :> Str(PathData)),
    ("path" :> Str(PathConf)) @@ ("dir" :> Str(PathConf)),
    ("pattern" :> Str(GlobStar)) @@ ("path" :> Str(PathConf)),
    ("command" :> Str(CmdCat)) }

ParamsNet ==
  { "url" :> Str(UrlOnion),
    "url" :> Str(UrlSub),
    "host" :> Str(HostBare),
    "host" :> Str(HostEvil),
    ("url" :> Str(NotAUrl)) @@ ("host" :> Str(HostSub)) @@ ("server" :> Str(HostOnion)),
    ("path" :> Str(PathKey)) @@ ("host" :> Str(HostOnion)) }

\* params records that carry several paths and hosts, some of them twice
ParamsSeveral ==
  { ("path" :> Str(PathKey)) @@ ("file" :> Str(PathEtc)) @@ ("dir" :> Str(PathConf))
      @@ ("host" :> Str(HostOnion)) @@ ("server" :> Str(HostEvil)),
    "path" :> Str(PathEtc),
    ("path" :> Str(PathConf)) @@ ("dir" :> Str(PathConf)),
    ("path" :> Str(PathKey)) @@ ("file" :> Str(PathKey)) @@ ("host" :> Str(HostOnion))
      @@ ("server" :> Str(HostOnion)),
    ("url" :> Str(UrlOnion)) @@ ("host" :> Str(HostOnion)),
    ("path" :> Str(PathKey)) @@ ("host" :> Str(HostOnion)),
    ("command" :> Str(CmdCat)) @@ ("path" :> Str(PathData)) @@ ("file" :> Str(PathEtc)),
    ("host" :> Str(HostEvil)) @@ ("server" :> Str(HostSub)) @@ ("url" :> Str(UrlSub)) }

ParamsWithCache == { EmptyMap, ("path" :> Str(PathKey)) @@ ("host" :> Str(HostOnion)) }

Classifications ==
  { [allowed |-> TRUE, reason |-> "matches", matchedCapability |-> "Calendar read access"],
    [allowed |-> FALSE, reason |-> "denied",
     matchedCapability |-> "Shell or command execution"],
    [allowed |-> FALSE, reason |-> "no match", matchedCapability |-> NoCapability] }

\* the caches a caller may pass for a call of tool t
CachesFor(t) ==
  {[supplied |-> TRUE, entries |-> EmptyMap]}
    \cup {[supplied |-> TRUE, entries |-> (t :> c)] : c \in Classifications}

-----------------------------------------------------------------------------
(* The policy engine used through its exported functions: a caller builds  *)
(* the policy of a list of contracts and evaluates tool calls against it   *)

NoCall == [made |-> FALSE, toolName |-> <<>>, params |-> EmptyMap, cache |-> NoCache]
NoQuery == [fn |-> "none"]

\* no loadBoxes called, no load completed yet, no hook run, no second call; the
\* loading record keeps the directories and the boxes at the start of the last
\* loadBoxes call until the next load, and done describes the last completed load
NotLoading == [active |-> FALSE, dirs |-> {}, pending |-> {}, start |-> <<>>,
               foreign |-> FALSE, failed |-> FALSE]
NoLoad == [op |-> "none", tick |-> FALSE, partial |-> FALSE, cleared |-> FALSE]
NoReason == [text |-> "", arg |-> <<>>, note |-> "", pattern |-> <<>>]
NoHook == [name |-> "none", block |-> FALSE, blockReason |-> NoReason,
           recorded |-> <<>>, alerted |-> <<>>, before |-> FALSE, alerts |-> 0]
NoSecond == [made |-> FALSE, violations |-> <<>>]
\* no agent_end event has been checked
NoAgentEnd == [made |-> FALSE, skillId |-> <<>>, toolCalls |-> <<>>, violations |-> <<>>]

\* no classification is in flight and none has been stored
NoClassifying == [inflight |-> {}, against |-> EmptyMap]

\* the enforcer as constructed (enforcer.ts:34-39), nothing loaded or evaluated
Constructed ==
  /\ boxes = <<>>
  /\ policy = buildGlobalPolicy(<<>>)
  /\ call = NoCall
  /\ violations = <<>>
  /\ query = NoQuery
  /\ answer = Null
  /\ capabilityCache = EmptyMap
  /\ loading = NotLoading
  /\ done = NoLoad
  /\ hook = NoHook
  /\ second = NoSecond
  /\ skillBoxes = EmptyMap
  /\ agentEnd = NoAgentEnd
  /\ recentViolations = <<>>
  /\ recorded = 0
  /\ classifying = NoClassifying

Init == Constructed /\ mode = "monitor"

\* buildGlobalPolicy(boxes) for the list extended by one contract
BuildPolicy(box) ==
  /\ Len(boxes) < MaxBoxes
  /\ boxes' = Append(boxes, box)
  /\ policy' = buildGlobalPolicy(boxes')
  /\ UNCHANGED <<call, violations, query, answer, enforcerVars>>

\* matchToolCall(toolName, params, policy, cache)
MatchToolCall(toolName, params, cache) ==
  /\ call' = [made |-> TRUE, toolName |-> toolName, params |-> params, cache |-> cache]
  /\ violations' = matchToolCall(toolName, params, policy, cache)
  /\ UNCHANGED <<boxes, policy, query, answer, enforcerVars>>

\* the caller's steps; one evaluation is explored per policy
LoadContract == ~call.made /\ \E box \in Contracts : BuildPolicy(box)

Evaluate ==
  /\ ~call.made
  /\ \E t \in ToolNames, p \in ParamsFs \cup ParamsNet : MatchToolCall(t, p, NoCache)

EvaluateWithCache ==
  /\ ~call.made
  /\ \E t \in ToolNames, p \in ParamsWithCache : \E c \in CachesFor(t) : MatchToolCall(t, p, c)

Next == LoadContract \/ Evaluate \/ EvaluateWithCache

Spec == Init /\ [][Next]_vars

\* the same policies, evaluated for calls with several paths and hosts
EvaluateSeveral ==
  /\ ~call.made
  /\ \E t \in ToolNames, p \in ParamsSeveral : MatchToolCall(t, p, NoCache)

NextSeveral == LoadContract \/ EvaluateSeveral

SpecSeveral == Init /\ [][NextSeveral]_vars

-----------------------------------------------------------------------------
(* The rule primitives called on their own: checkFilesystemAccess,         *)
(* checkNetworkAccess and the host matcher on bounded inputs               *)

\* "/s"
PathDir == <<"/", "s">>
\* "**/.k"
PatAnyKey == <<"*", "*", "/", ".", "k">>

RulePaths == {PathKey, PathData, PathConf, PathEtc, PathDir, <<>>}
RulePatterns == {PatSecret, PatDataX, PatConf, PatAnyKey}
PatternLists == DistinctSeqs(RulePatterns, MaxPatterns)

\* every string of at most MaxHostLen characters over a three-letter alphabet
HostAlphabet == {"x", "g", "."}
RuleHosts == SeqsUpTo(HostAlphabet, MaxHostLen)
\* "*", and for every such string D the patterns "*.D" and D
RuleHostPatterns == {HPatAny} \cup RuleHosts \cup {<<"*", ".">> \o d : d \in RuleHosts}
HostPatternLists == DistinctSeqs({HPatAny, HPatSub, HPatBare, HostSub}, MaxPatterns)

CheckFilesystemAccess(filePath, operation, rules) ==
  /\ query' = [fn |-> "checkFilesystemAccess", filePath |-> filePath,
               operation |-> operation, rules |-> rules]
  /\ answer' = checkFilesystemAccess(filePath, operation, rules)
  /\ UNCHANGED <<boxes, policy, call, violations, enforcerVars>>

CheckNetworkAccess(host, rules) ==
  /\ query' = [fn |-> "checkNetworkAccess", host |-> host, rules |-> rules]
  /\ answer' = checkNetworkAccess(host, rules)
  /\ UNCHANGED <<boxes, policy, call, violations, enforcerVars>>

HostMatches(host, pattern) ==
  /\ query' = [fn |-> "hostMatches", host |-> host, pattern |-> pattern]
  /\ answer' = [msg |-> IF hostMatches(host, pattern) THEN "true" ELSE "false",
                arg |-> host, pattern |-> pattern]
  /\ UNCHANGED <<boxes, policy, call, violations, enforcerVars>>

\* the caller's steps; one query is explored per run
QueryFilesystem ==
  /\ query = NoQuery
  /\ \E f \in RulePaths, op \in {"read", "write"},
        r \in [readable : PatternLists, writable : PatternLists, denied : PatternLists] :
       CheckFilesystemAccess(f, op, r)

QueryNetwork ==
  /\ query = NoQuery
  /\ \E h \in RuleHosts,
        r \in [allowedHosts : HostPatternLists, deniedHosts : HostPatternLists] :
       CheckNetworkAccess(h, r)

QueryHostPattern ==
  /\ query = NoQuery
  /\ \E h \in RuleHosts, pat \in RuleHostPatterns : HostMatches(h, pat)

NextRule == QueryFilesystem \/ QueryNetwork \/ QueryHostPattern

SpecRule == Init /\ [][NextRule]_vars

-----------------------------------------------------------------------------
(* enforcer.ts, lines 26-115: ActionBoxEnforcer loading contracts from     *)
(* skill directories.  loadBox and each directory of a loadBoxes batch run *)
(* their synchronous part when their readFile settles, in any order.  One  *)
(* loadBoxes batch is in flight at a time.                                 *)

Modes == {"monitor", "enforce"}

MakeBox(id, allowed, denied) ==
  [skillId |-> id,
   allowedTools |-> [i \in 1..Len(allowed) |-> [name |-> allowed[i], reason |-> "needed"]],
   deniedTools |-> [i \in 1..Len(denied) |-> [name |-> denied[i], reason |-> ReasonOf(id)]],
   filesystem |-> RulesOf(id).filesystem, network |-> RulesOf(id).network,
   allowedCapabilities |-> RulesOf(id).allowedCapabilities,
   deniedCapabilities |-> RulesOf(id).deniedCapabilities]

\* the skill directories: two hold a contract of skill A, one a contract of
\* skill B, and one has no valid ACTIONBOX.md
SkillDirs == {"dirA", "dirA2", "dirB", "dirBad"}

\* readFile and parseActionBox for a directory: a box, or an exception
ReadBox(dir) ==
  CASE dir = "dirA" -> [ok |-> TRUE, box |-> MakeBox(SkillA, <<Bash>>, <<>>)]
    [] dir = "dirA2" -> [ok |-> TRUE, box |-> MakeBox(SkillA, <<>>, <<Rm>>)]
    [] dir = "dirB" -> [ok |-> TRUE, box |-> MakeBox(SkillB, <<Bash>>, <<>>)]
    [] OTHER -> [ok |-> FALSE, box |-> MakeBox(SkillC, <<>>, <<>>)]

MaxBatch == 2
Batches == {b \in SUBSET SkillDirs : Cardinality(b) <= MaxBatch}

\* this.boxes.set(box.skillId, box): a Map keeps the position of a key it has
boxesSet(bs, box) ==
  IF \E i \in 1..Len(bs) : bs[i].skillId = box.skillId
  THEN [i \in 1..Len(bs) |-> IF bs[i].skillId = box.skillId THEN box ELSE bs[i]]
  ELSE Append(bs, box)

\* mutant: the policy is replaced and the cache is kept
rebuildPolicy_keepsCache(bs, cache) ==
  [policy |-> buildGlobalPolicy(bs), capabilityCache |-> cache]

\* lines 75-85: the new policy and the cleared cache
rebuildPolicy(bs, cache) ==
  [policy |-> buildGlobalPolicy(bs), capabilityCache |-> EmptyMap]

\* mutant: an unreadable directory rejects the batch
settleDir_noCatch(bs, content) ==
  [boxes |-> IF content.ok THEN boxesSet(bs, content.box) ELSE bs, failed |-> ~content.ok]

\* lines 59-66: one directory of a batch; the catch swallows the exception
settleDir(bs, content) ==
  [boxes |-> IF content.ok THEN boxesSet(bs, content.box) ELSE bs, failed |-> FALSE]

\* the box list bs holds a box that the batch in flight has set and that was
\* not loaded before the batch, and lacks the skill of a valid directory the
\* batch has still to set
PartlyApplied(bs) ==
  /\ loading.active
  /\ \E d \in loading.dirs \ loading.pending :
       /\ ReadBox(d).ok
       /\ \E i \in 1..Len(bs) : bs[i] = ReadBox(d).box
       /\ \A i \in 1..Len(loading.start) : loading.start[i] # ReadBox(d).box
  /\ \E d \in loading.pending :
       /\ ReadBox(d).ok
       /\ \A i \in 1..Len(bs) : bs[i].skillId # ReadBox(d).box.skillId

\* mutant: the policy is rebuilt although the load threw
loadBox_rebuildsOnThrow(bs, pol, cache, content) ==
  LET set == IF content.ok THEN boxesSet(bs, content.box) ELSE bs
      r == rebuildPolicy(set, cache)
  IN [boxes |-> set, policy |-> r.policy, capabilityCache |-> r.capabilityCache,
      threw |-> ~content.ok]

\* lines 44-51: loadBox once its readFile has settled; readFile or
\* parseActionBox throwing rejects the call before boxes.set and rebuildPolicy
loadBox(bs, pol, cache, content) ==
  IF content.ok
  THEN LET set == boxesSet(bs, content.box)
           r == rebuildPolicy(set, cache)
       IN [boxes |-> set, policy |-> r.policy, capabilityCache |-> r.capabilityCache,
           threw |-> FALSE]
  ELSE [boxes |-> bs, policy |-> pol, capabilityCache |-> cache, threw |-> TRUE]

\* a call of loadBox; done tells whether it resolved or rejected
LoadBox(dir) ==
  /\ LET r == loadBox(boxes, policy, capabilityCache, ReadBox(dir))
     IN /\ boxes' = r.boxes
        /\ policy' = r.policy
        /\ capabilityCache' = r.capabilityCache
        /\ done' = IF r.threw
                   THEN [op |-> "loadBoxRejected", tick |-> done.tick, partial |-> FALSE,
                         cleared |-> FALSE]
                   ELSE [op |-> "loadBox", tick |-> ~done.tick,
                         partial |-> PartlyApplied(boxes'),
                         cleared |-> capabilityCache # EmptyMap]
  /\ loading' = IF loading.active THEN [loading EXCEPT !.foreign = TRUE] ELSE NotLoading
  /\ UNCHANGED <<call, violations, query, answer, classifying, agentVars, statusVars,
                 mode, hook, second>>

\* lines 56-58: loadBoxes starts one read per directory
LoadBoxesStart(dirs) ==
  /\ ~loading.active
  /\ loading' = [active |-> TRUE, dirs |-> dirs, pending |-> dirs, start |-> boxes,
                 foreign |-> FALSE, failed |-> FALSE]
  /\ UNCHANGED <<boxes, policy, call, violations, query, answer, classifying, agentVars, statusVars,
                 capabilityCache, done, mode, hook, second>>

\* lines 59-66: the read of one directory of the batch settles
SettleDir(dir) ==
  /\ loading.active /\ dir \in loading.pending
  /\ LET r == settleDir(boxes, ReadBox(dir))
     IN /\ boxes' = r.boxes
        /\ loading' = [loading EXCEPT !.pending = @ \ {dir}, !.failed = @ \/ r.failed]
  /\ UNCHANGED <<policy, call, violations, query, answer, classifying, agentVars, statusVars,
                 capabilityCache, done, mode, hook, second>>

\* lines 68-70: Promise.all has settled; rebuildPolicy unless the batch rejected
LoadBoxesFinish ==
  /\ loading.active /\ loading.pending = {}
  /\ LET r == IF loading.failed
              THEN [policy |-> policy, capabilityCache |-> capabilityCache]
              ELSE rebuildPolicy(boxes, capabilityCache)
     IN policy' = r.policy /\ capabilityCache' = r.capabilityCache
  /\ done' = [op |-> IF loading.failed THEN "rejected" ELSE "loadBoxes",
              tick |-> ~done.tick, partial |-> FALSE,
              cleared |-> ~loading.failed /\ capabilityCache # EmptyMap]
  /\ loading' = [loading EXCEPT !.active = FALSE]
  /\ UNCHANGED <<boxes, call, violations, query, answer, classifying, agentVars, statusVars, mode, hook, second>>

\* CapabilityMatcherCache.set, by the layer that owns the classifier
CacheSet(toolName, classification) ==
  /\ capabilityCache' = (toolName :> classification) @@ capabilityCache
  /\ UNCHANGED <<boxes, policy, call, violations, query, answer, classifying, agentVars, statusVars,
                 loading, done, mode, hook, second>>

\* mutant: a miss is classified and the verdict is stored
cacheAfterCheck_classifies(toolName, pol, cache) ==
  IF /\ Len(attributeToolToSkills(toolName, pol)) = 0
     /\ toolName \notin DOMAIN pol.globalDeniedTools
     /\ toolName \notin DOMAIN cache
  THEN (toolName :> [allowed |-> FALSE, reason |-> "no match",
                     matchedCapability |-> NoCapability]) @@ cache
  ELSE cache

\* mutant: an entry is dropped once it has been read
cacheAfterCheck_consumes(toolName, pol, cache) ==
  [t \in DOMAIN cache \ {toolName} |-> cache[t]]

\* the cache after matchToolCall has run: the matcher only reads it
cacheAfterCheck(toolName, pol, cache) == cache

\* lines 113-115: check passes this.policy and this.capabilityCache to the matcher
check(toolName, params, pol, cache) ==
  matchToolCall(toolName, params, pol, [supplied |-> TRUE, entries |-> cache])

\* cli/audit.ts lines 116-137: the log of recent violations
MAX_RECENT == 20

\* mutant: the newest violation is dropped when the log is full
recordViolation_dropsNewest(log, violation) ==
  LET pushed == Append(log, violation)
  IN IF Len(pushed) > MAX_RECENT THEN SubSeq(pushed, 1, Len(pushed) - 1) ELSE pushed

\* lines 123-128: push, then shift when the log is longer than MAX_RECENT
recordViolation(log, violation) ==
  LET pushed == Append(log, violation)
  IN IF Len(pushed) > MAX_RECENT THEN Tail(pushed) ELSE pushed

\* lines 133-137
RECURSIVE recordViolations(_, _)
recordViolations(log, vs) ==
  IF vs = <<>> THEN log
  ELSE recordViolations(recordViolation(log, Head(vs)), Tail(vs))

\* mutant: the hook blocks in either mode
beforeToolCall_anyMode(vs, m) ==
  [name |-> "before_tool_call", block |-> Len(vs) > 0,
   blockReason |-> IF Len(vs) > 0 THEN vs[1].message ELSE NoReason,
   recorded |-> vs, alerted |-> vs, before |-> TRUE,
   alerts |-> IF Len(vs) > 0 THEN 1 ELSE 0]

\* the before_tool_call handler, given what check returned: what it returns,
\* what it hands to recordViolations and to alerter.alertViolations, and the
\* number of alerts raised
beforeToolCall(vs, m) ==
  [name |-> "before_tool_call", block |-> Len(vs) > 0 /\ m = "enforce",
   blockReason |-> IF Len(vs) > 0 /\ m = "enforce" THEN vs[1].message ELSE NoReason,
   recorded |-> vs, alerted |-> vs, before |-> TRUE,
   alerts |-> IF Len(vs) > 0 THEN 1 ELSE 0]

\* the after_tool_call handler, given what check returned
afterToolCall(vs, m) ==
  [name |-> "after_tool_call", block |-> FALSE, blockReason |-> NoReason,
   recorded |-> vs, alerted |-> IF m = "monitor" THEN vs ELSE <<>>, before |-> FALSE,
   alerts |-> IF Len(vs) > 0 /\ m = "monitor" THEN 1 ELSE 0]

\* a call of enforcer.check, by a hook or directly
Check(toolName, params, by) ==
  /\ call' = [made |-> TRUE, toolName |-> toolName, params |-> params,
              cache |-> [supplied |-> TRUE, entries |-> capabilityCache]]
  /\ violations' = check(toolName, params, policy, capabilityCache)
  /\ capabilityCache' = cacheAfterCheck(toolName, policy, capabilityCache)
  /\ hook' = CASE by = "before_tool_call" -> beforeToolCall(violations', mode)
               [] by = "after_tool_call" -> afterToolCall(violations', mode)
               [] OTHER -> hook
  /\ recentViolations' = recordViolations(recentViolations, hook'.recorded)
  /\ recorded' = recorded + Len(hook'.recorded)
  /\ UNCHANGED <<boxes, policy, query, answer, classifying, agentVars, loading, done, mode, second>>

\* the after_tool_call handler for the call that the before_tool_call handler
\* has let through
AfterToolCallOfCall ==
  /\ call.made /\ hook.name = "before_tool_call" /\ ~hook.block
  /\ violations' = check(call.toolName, call.params, policy, capabilityCache)
  /\ capabilityCache' = cacheAfterCheck(call.toolName, policy, capabilityCache)
  /\ hook' = [afterToolCall(violations', mode) EXCEPT !.before = TRUE,
                                                     !.alerts = @ + hook.alerts]
  /\ recentViolations' = recordViolations(recentViolations, hook'.recorded)
  /\ recorded' = recorded + Len(hook'.recorded)
  /\ UNCHANGED <<boxes, policy, call, query, answer, classifying, agentVars, loading, done, mode, second>>

\* the same call of enforcer.check, made once more
CheckAgain ==
  /\ call.made /\ ~second.made /\ hook = NoHook
  /\ second' = [made |-> TRUE,
                violations |-> check(call.toolName, call.params, policy, capabilityCache)]
  /\ capabilityCache' = cacheAfterCheck(call.toolName, policy, capabilityCache)
  /\ UNCHANGED <<boxes, policy, call, violations, query, answer, classifying, agentVars, statusVars, loading, done, mode, hook>>

\* the classifications the owner of the cache stores
CacheWrites ==
  { <<Rm, [allowed |-> FALSE, reason |-> "denied",
           matchedCapability |-> "Shell or command execution"]>>,
    <<Rm, [allowed |-> FALSE, reason |-> "no match", matchedCapability |-> NoCapability]>> }

\* the params of the calls made on the enforcer
ParamsEnforcer == { ("path" :> Str(PathKey)) @@ ("host" :> Str(HostOnion)) }

\* the callers of the enforcer; the evaluation of one tool call is explored from
\* every state of the enforcer
LoadOne == ~call.made /\ \E d \in SkillDirs : LoadBox(d)
StartBatch == ~call.made /\ \E b \in Batches : LoadBoxesStart(b)
SettleOne == ~call.made /\ \E d \in SkillDirs : SettleDir(d)
FinishBatch == ~call.made /\ LoadBoxesFinish
WriteCache == ~call.made /\ \E w \in CacheWrites : CacheSet(w[1], w[2])
DirectCheck == ~call.made /\ \E t \in ToolNames, p \in ParamsEnforcer : Check(t, p, "check")

NextEnforcer ==
  \/ LoadOne \/ StartBatch \/ SettleOne \/ FinishBatch \/ WriteCache
  \/ DirectCheck \/ CheckAgain

SpecEnforcer == Init /\ [][NextEnforcer]_vars

\* capability-matcher.ts lines 53-97 and 107-109, with the caller that the
\* specification gives the classifier to: the caller reads the capability
\* lists of the policy in force, awaits classifyToolCall, and stores what the
\* call resolved to with CapabilityMatcherCache.set
MaxInFlight == 2

\* the capability lists of a policy, as the caller passes them to the classifier
capabilityLists(pol) ==
  [allowed |-> pol.allAllowedCapabilities, denied |-> pol.allDeniedCapabilities]

\* lines 53-97: what classifyToolCall can resolve to for the given lists; the
\* answer is the model's, or the fallback for an answer that does not parse
classifyToolCall(toolName, allowedCapabilities, deniedCapabilities) ==
  {[allowed |-> FALSE, reason |-> "no match", matchedCapability |-> NoCapability],
   [allowed |-> FALSE, reason |-> "Failed to parse", matchedCapability |-> NoCapability]}
  \cup {[allowed |-> FALSE, reason |-> "denied", matchedCapability |-> deniedCapabilities[i]] :
          i \in 1..Len(deniedCapabilities)}
  \cup {[allowed |-> TRUE, reason |-> "allowed", matchedCapability |-> allowedCapabilities[i]] :
          i \in 1..Len(allowedCapabilities)}

\* lines 107-109, as the caller uses it: the result is stored under the tool name
cacheSetOfCaller(cache, started, classification) ==
  (started.toolName :> classification) @@ cache

\* the caller starts a classification with the lists of this.policy
StartClassification(toolName) ==
  /\ Cardinality(classifying.inflight) < MaxInFlight
  /\ classifying' = [classifying EXCEPT
       !.inflight = @ \cup {[toolName |-> toolName, lists |-> capabilityLists(policy)]}]
  /\ UNCHANGED <<boxes, policy, call, violations, query, answer, capabilityCache,
                 loading, done, mode, hook, second, agentVars, statusVars>>

\* classifyToolCall resolves and the caller stores the result; against keeps,
\* for each tool name, the lists its stored classification was made against
FinishClassification(started, classification) ==
  /\ started \in classifying.inflight
  /\ classification \in classifyToolCall(started.toolName, started.lists.allowed,
                                         started.lists.denied)
  /\ capabilityCache' = cacheSetOfCaller(capabilityCache, started, classification)
  /\ classifying' =
       [inflight |-> classifying.inflight \ {started},
        against |-> (started.toolName :> started.lists) @@ classifying.against]
  /\ UNCHANGED <<boxes, policy, call, violations, query, answer,
                 loading, done, mode, hook, second, agentVars, statusVars>>

BeginClassify == \E t \in ToolNames : StartClassification(t)
EndClassify ==
  \E c \in classifying.inflight :
    \E r \in classifyToolCall(c.toolName, c.lists.allowed, c.lists.denied) :
      FinishClassification(c, r)

NextClassify == LoadOne \/ BeginClassify \/ EndClassify

SpecClassify == Init /\ [][NextClassify]_vars

\* the plugin: register awaits loadBoxes(skillDirs) and then installs the hooks
Register == ~call.made /\ done.op = "none" /\ \E b \in Batches : LoadBoxesStart(b)
BeforeHook ==
  /\ ~call.made /\ done.op = "loadBoxes"
  /\ \E t \in ToolNames, p \in ParamsWithCache : Check(t, p, "before_tool_call")
AfterHook ==
  /\ ~call.made /\ done.op = "loadBoxes"
  /\ \E t \in ToolNames, p \in ParamsWithCache : Check(t, p, "after_tool_call")

InitPlugin == Constructed /\ mode \in Modes

NextPlugin ==
  Register \/ SettleOne \/ FinishBatch \/ BeforeHook \/ AfterHook \/ AfterToolCallOfCall

SpecPlugin == InitPlugin /\ [][NextPlugin]_vars

-----------------------------------------------------------------------------
(* The per-skill enforcer (enforcer.ts, lines 171-262) and its matcher     *)
(* (matcher.ts): a tool call event names its skill and is matched against  *)
(* that skill's box alone; checkAgentEnd adds the tool call count limit.   *)

\* matcher.ts lines 110-120
writeTools ==
  <<<<"w", "r", "i", "t", "e", "_", "f", "i", "l", "e">>,
     <<"c", "r", "e", "a", "t", "e", "_", "f", "i", "l", "e">>,
     <<"e", "d", "i", "t", "_", "f", "i", "l", "e">>,
     <<"d", "e", "l", "e", "t", "e", "_", "f", "i", "l", "e">>,
     <<"m", "o", "v", "e", "_", "f", "i", "l", "e">>,
     <<"c", "o", "p", "y", "_", "f", "i", "l", "e">>,
     <<"m", "k", "d", "i", "r">>,
     <<"w", "r", "i", "t", "e">>,
     <<"p", "a", "t", "c", "h">>>>

\* matcher.ts lines 107-123: inferFileOperation of the per-box matcher
perBoxInferFileOperation(toolName) ==
  LET lowerName == ToLowerCase(toolName)
  IN IF \E i \in 1..Len(writeTools) : Includes(lowerName, writeTools[i])
     THEN "write" ELSE "read"

\* the first entry of a tool list with the given name, 0 when there is none
findTool(tools, toolName) ==
  IF \E i \in 1..Len(tools) : tools[i].name = toolName
  THEN CHOOSE i \in 1..Len(tools) :
         /\ tools[i].name = toolName
         /\ \A j \in 1..(i - 1) : tools[j].name # toolName
  ELSE 0

\* matcher.ts lines 46-79: one violation for each resolved path the box refuses
perBoxPathCheck(event, box) ==
  LET operation == perBoxInferFileOperation(event.toolName)
      hit == SelectSeq(event.resolvedPaths, LAMBDA f :
               checkFilesystemAccess(f, operation, box.filesystem) # Null)
      typeOf(f) == IF pathMatchesAny(f, box.filesystem.denied) THEN "filesystem_denied"
                   ELSE IF operation = "write" THEN "filesystem_write_violation"
                   ELSE "filesystem_read_violation"
  IN [i \in 1..Len(hit) |->
       createViolation(typeOf(hit[i]),
         IF typeOf(hit[i]) = "filesystem_denied" THEN "critical" ELSE "high",
         event.skillId, event.toolName,
         [text |-> checkFilesystemAccess(hit[i], operation, box.filesystem).msg,
          arg |-> hit[i], note |-> "", pattern |-> <<>>],
         [text |-> IF operation = "write" THEN "filesystem.writable" ELSE "filesystem.readable",
          arg |-> <<>>],
         [kind |-> "path", value |-> hit[i], claimingSkills |-> <<>>])]

\* matcher.ts lines 81-99: one violation for each network host the box refuses
perBoxHostCheck(event, box) ==
  LET hit == SelectSeq(event.networkHosts, LAMBDA h : checkNetworkAccess(h, box.network) # Null)
  IN [i \in 1..Len(hit) |->
       createViolation("network_violation", "high", event.skillId, event.toolName,
         [text |-> checkNetworkAccess(hit[i], box.network).msg, arg |-> hit[i], note |-> "",
          pattern |-> checkNetworkAccess(hit[i], box.network).pattern],
         [text |-> "network.allowedHosts", arg |-> <<>>],
         [kind |-> "host", value |-> hit[i], claimingSkills |-> <<>>])]

\* matcher.ts lines 9-102: matchToolCall(event, box); an absent resolvedPaths
\* or networkHosts is the empty list
perBoxMatchToolCall(event, box) ==
  LET denied == findTool(box.deniedTools, event.toolName)
      allowed == findTool(box.allowedTools, event.toolName)
  IN IF denied # 0
     THEN <<createViolation("denied_tool", "critical", event.skillId, event.toolName,
              [text |-> "is explicitly denied", arg |-> event.toolName,
               note |-> box.deniedTools[denied].reason, pattern |-> <<>>],
              [text |-> "deniedTools", arg |-> box.deniedTools[denied].name], NoDetails)>>
     ELSE (IF allowed = 0
           THEN <<createViolation("unlisted_tool", "high", event.skillId, event.toolName,
                    [text |-> "is not in the allowed tools list", arg |-> event.toolName,
                     note |-> "", pattern |-> <<>>],
                    [text |-> "allowedTools", arg |-> <<>>], NoDetails)>>
           ELSE <<>>)
          \o perBoxPathCheck(event, box)
          \o perBoxHostCheck(event, box)

\* enforcer.ts lines 223-230: check(event) of the per-skill enforcer
perSkillCheck(event, bxs) ==
  IF event.skillId \notin DOMAIN bxs THEN <<>>
  ELSE perBoxMatchToolCall(event, bxs[event.skillId])

\* enforcer.ts lines 240-243: the violations of every tool call, in order
RECURSIVE perCallViolations(_, _)
perCallViolations(toolCalls, bxs) ==
  IF toolCalls = <<>> THEN <<>>
  ELSE perSkillCheck(Head(toolCalls), bxs) \o perCallViolations(Tail(toolCalls), bxs)

\* enforcer.ts lines 248-257
limitViolation(skillId, count, maxToolCalls) ==
  createViolation("tool_call_limit_exceeded", "medium", skillId, <<"*">>,
    [text |-> "Skill made tool calls, exceeding limit", arg |-> <<count, maxToolCalls>>,
     note |-> "", pattern |-> <<>>],
    [text |-> "behavior.maxToolCalls", arg |-> <<maxToolCalls>>], NoDetails)

\* enforcer.ts lines 236-262: checkAgentEnd(event)
checkAgentEnd(skillId, toolCalls, bxs) ==
  perCallViolations(toolCalls, bxs)
  \o (IF /\ skillId \in DOMAIN bxs
         /\ Truthy(bxs[skillId].behavior.maxToolCalls)
         /\ Len(toolCalls) > bxs[skillId].behavior.maxToolCalls.num
      THEN <<limitViolation(skillId, Len(toolCalls), bxs[skillId].behavior.maxToolCalls.num)>>
      ELSE <<>>)

\* a contract with its behavior section
WithBehavior(box, maxToolCalls) ==
  [skillId |-> box.skillId, allowedTools |-> box.allowedTools, deniedTools |-> box.deniedTools,
   filesystem |-> box.filesystem, network |-> box.network,
   allowedCapabilities |-> box.allowedCapabilities,
   deniedCapabilities |-> box.deniedCapabilities,
   behavior |-> [maxToolCalls |-> maxToolCalls]]

MaxLimit == 2
MaxCalls == 3

\* maxToolCalls is optional in the contract
Limits == {Undefined} \cup {Num(n) : n \in 0..MaxLimit}

\* the contracts the per-skill enforcer loads
SkillContracts ==
  {WithBehavior(MakeBox(SkillA, <<Bash>>, <<Rm>>), l) : l \in Limits}
  \cup {WithBehavior(MakeBox(SkillB, <<Bash>>, <<>>), l) : l \in {Undefined, Num(1)}}

\* the tool calls an agent_end event reports
ToolCallEvents ==
  { [skillId |-> SkillA, toolName |-> Bash, resolvedPaths |-> <<PathData>>, networkHosts |-> <<>>],
    [skillId |-> SkillA, toolName |-> Rm, resolvedPaths |-> <<>>, networkHosts |-> <<>>],
    [skillId |-> SkillB, toolName |-> Bash, resolvedPaths |-> <<PathKey>>,
     networkHosts |-> <<HostOnion>>] }

\* enforcer.ts lines 180-188: loadBox of the per-skill enforcer, from the
\* moment its readFile has resolved
LoadSkillBox(box) ==
  /\ skillBoxes' = (box.skillId :> box) @@ skillBoxes
  /\ UNCHANGED <<statusVars, boxes, policy, call, violations, query, answer, classifying, agentEnd,
                 capabilityCache, loading, done, mode, hook, second>>

\* enforcer.ts lines 236-262
CheckAgentEnd(skillId, toolCalls) ==
  /\ agentEnd' = [made |-> TRUE, skillId |-> skillId, toolCalls |-> toolCalls,
                  violations |-> checkAgentEnd(skillId, toolCalls, skillBoxes)]
  /\ UNCHANGED <<statusVars, boxes, policy, call, violations, query, answer, classifying, skillBoxes,
                 capabilityCache, loading, done, mode, hook, second>>

LoadSkill == ~agentEnd.made /\ \E box \in SkillContracts : LoadSkillBox(box)

AgentEnd ==
  /\ ~agentEnd.made
  /\ \E s \in {SkillA, SkillB}, tc \in SeqsUpTo(ToolCallEvents, MaxCalls) : CheckAgentEnd(s, tc)

NextAgentEnd == LoadSkill \/ AgentEnd

SpecAgentEnd == Init /\ [][NextAgentEnd]_vars

-----------------------------------------------------------------------------
(* The log of recent violations of the status display (cli/audit.ts,       *)
(* lines 116-137) on its own.  The violations recorded are told apart by   *)
(* their id, here the number of the recording.                             *)

MaxRecorded == 120
MaxAtOnce == 3

\* the next n violations, each with a fresh id
Fresh(n) == [i \in 1..n |-> [id |-> recorded + i]]

RecordViolation ==
  /\ recorded < MaxRecorded
  /\ recentViolations' = recordViolation(recentViolations, Fresh(1)[1])
  /\ recorded' = recorded + 1
  /\ UNCHANGED <<boxes, policy, call, violations, query, answer, classifying, capabilityCache,
                 loading, done, mode, hook, second, agentVars>>

RecordViolations ==
  /\ \E n \in 0..MaxAtOnce :
       /\ n # 1 /\ recorded + n <= MaxRecorded
       /\ recentViolations' = recordViolations(recentViolations, Fresh(n))
       /\ recorded' = recorded + n
  /\ UNCHANGED <<boxes, policy, call, violations, query, answer, classifying, capabilityCache,
                 loading, done, mode, hook, second, agentVars>>

NextStatus == RecordViolation \/ RecordViolations

SpecStatus == Init /\ [][NextStatus]_vars


-----------------------------------------------------------------------------
(* Properties of the rule primitives, under SpecRule *)

\* C6: checkFilesystemAccess(path, op, rules) returns a message exactly when the
\* path matches a denied pattern (for either operation, whatever readable and
\* writable say), or op = read, readable is non-empty and the path matches none
\* of it, or op = write, writable is non-empty and the path matches none of it;
\* pathMatchesAny(p, []) is false, and with three empty sets the check is null.
C6_FilesystemVerdict ==
  query.fn = "checkFilesystemAccess" =>
    LET f == query.filePath
        op == query.operation
        r == query.rules
        matches(list) == \E i \in 1..Len(list) : minimatch(f, list[i])
    IN /\ (answer # Null) <=>
            \/ matches(r.denied)
            \/ op = "read" /\ r.readable # <<>> /\ ~matches(r.readable)
            \/ op = "write" /\ r.writable # <<>> /\ ~matches(r.writable)
       /\ ~pathMatchesAny(f, <<>>)
       /\ (r.readable = <<>> /\ r.writable = <<>> /\ r.denied = <<>>) => answer = Null

\* C6 witness: a read of a path that a readable pattern covers and a denied
\* pattern matches is rejected
C6_Witness ==
  /\ query.fn = "checkFilesystemAccess"
  /\ query.operation = "read"
  /\ query.filePath = PathKey
  /\ query.rules.readable = <<PatAnyKey>>
  /\ query.rules.denied = <<PatSecret>>
  /\ answer.msg = "matches a denied filesystem pattern"

\* C7: checkNetworkAccess(host, rules) rejects exactly when the host matches a
\* denied pattern, or allowedHosts is non-empty and the host matches none of it;
\* a deny match rejects even when an allow pattern (also "*") matches, and an
\* empty allowedHosts without a deny match returns null.
C7_NetworkVerdict ==
  query.fn = "checkNetworkAccess" =>
    LET h == query.host
        r == query.rules
        matches(list) == \E i \in 1..Len(list) : hostMatches(h, list[i])
    IN /\ (answer # Null) <=>
            \/ matches(r.deniedHosts)
            \/ r.allowedHosts # <<>> /\ ~matches(r.allowedHosts)
       /\ (matches(r.deniedHosts) /\ matches(r.allowedHosts)) => answer # Null
       /\ (r.allowedHosts = <<>> /\ ~matches(r.deniedHosts)) => answer = Null

\* C7 witness: allowedHosts ["*"] and a denied host that matches: rejected
C7_Witness ==
  /\ query.fn = "checkNetworkAccess"
  /\ query.rules.allowedHosts = <<HPatAny>>
  /\ query.rules.deniedHosts = <<HostSub>>
  /\ query.host = HostSub
  /\ answer.msg = "matches denied pattern"

-----------------------------------------------------------------------------
(* Properties of the policy builder and the evaluator, under Spec.  They   *)
(* are stated over the list of contracts the policy was built from.        *)

Range(q) == {q[i] : i \in 1..Len(q)}
Allows(box, t) == \E i \in 1..Len(box.allowedTools) : box.allowedTools[i].name = t
Denies(box, t) == \E i \in 1..Len(box.deniedTools) : box.deniedTools[i].name = t
AllowedBySome(t) == \E i \in 1..Len(boxes) : Allows(boxes[i], t)
DeniedBySome(t) == \E i \in 1..Len(boxes) : Denies(boxes[i], t)

\* the skills that claim t, and the contract in force for a skill (the last loaded)
Claimants(t) == {boxes[i].skillId : i \in {j \in 1..Len(boxes) : Allows(boxes[j], t)}}
ContractOf(s) ==
  boxes[CHOOSE i \in 1..Len(boxes) :
          boxes[i].skillId = s /\ \A j \in (i + 1)..Len(boxes) : boxes[j].skillId # s]

\* the skill of the first contract in load order that claims t, else "unknown"
FirstClaimant(t) ==
  IF AllowedBySome(t)
  THEN boxes[CHOOSE i \in 1..Len(boxes) :
               Allows(boxes[i], t) /\ \A j \in 1..(i - 1) : ~Allows(boxes[j], t)].skillId
  ELSE UNKNOWN

\* the skills of the contracts that deny t, in load order
Deniers(t) ==
  LET idx == SelectSeq([i \in 1..Len(boxes) |-> i], LAMBDA i : Denies(boxes[i], t))
  IN [k \in 1..Len(idx) |-> boxes[idx[k]].skillId]

\* some loaded contract has a denied filesystem pattern that matches p
DeniedSomewhere(p) ==
  \E i \in 1..Len(boxes) : \E j \in 1..Len(boxes[i].filesystem.denied) :
    minimatch(p, boxes[i].filesystem.denied[j])

ExtractedPaths == Range(extractPaths(call.toolName, call.params))
ViolationsOfType(type) == {i \in 1..Len(violations) : violations[i].type = type}
PathViolations(p) ==
  {i \in 1..Len(violations) :
     violations[i].details.kind = "path" /\ violations[i].details.value = p}

\* C1: a call of a tool that some contract denies and no contract allows returns
\* exactly one violation, a critical denied_tool, whatever params holds.
C1_DeniedToolShortCircuit ==
  (call.made /\ DeniedBySome(call.toolName) /\ ~AllowedBySome(call.toolName)) =>
    /\ Len(violations) = 1
    /\ violations[1].type = "denied_tool"
    /\ violations[1].severity = "critical"

\* C1 witness: a denied tool called with a path and a host that the policy denies
C1_Witness ==
  /\ call.made /\ DeniedBySome(call.toolName) /\ ~AllowedBySome(call.toolName)
  /\ call.params = ("path" :> Str(PathKey)) @@ ("host" :> Str(HostOnion))
  /\ pathMatchesAny(PathKey, policy.globalDeniedPaths)
  /\ globalNetResult(HostOnion, policy) # Null
  /\ Len(violations) = 1

\* C2: no tool is a key of both toolIndex and globalDeniedTools; a tool some
\* contract allows is never in globalDeniedTools, whoever denies it, and a call
\* of it never yields a denied_tool violation.
C2_AllowedNeverGloballyDenied ==
  /\ DOMAIN policy.toolIndex \cap DOMAIN policy.globalDeniedTools = {}
  /\ \A t \in ToolNames : AllowedBySome(t) => t \notin DOMAIN policy.globalDeniedTools
  /\ (call.made /\ AllowedBySome(call.toolName)) => ViolationsOfType("denied_tool") = {}

\* C2 witness: a call of a tool that one contract denies and a later one allows
C2_Witness ==
  /\ call.made
  /\ Len(boxes) = 2
  /\ Denies(boxes[1], call.toolName) /\ ~Allows(boxes[1], call.toolName)
  /\ Allows(boxes[2], call.toolName)
  /\ ViolationsOfType("denied_tool") = {}

\* C3 as stated: for a read tool claimed by skills A and B, a path readable under
\* B's rules and not under A's yields no filesystem violation.
C3_AsStated ==
  (call.made /\ inferFileOperation(call.toolName) = "read") =>
    \A a, b \in Claimants(call.toolName) : \A p \in ExtractedPaths :
      ( /\ a # b
        /\ checkFilesystemAccess(p, "read", ContractOf(b).filesystem) = Null
        /\ checkFilesystemAccess(p, "read", ContractOf(a).filesystem) # Null )
      => PathViolations(p) = {}

\* C3 amended: for a read tool claimed by skills A and B, a path readable under
\* B's rules and not under A's, which matches no denied filesystem pattern of any
\* loaded contract, yields no filesystem violation.
C3_MultiClaimantGenerosity ==
  (call.made /\ inferFileOperation(call.toolName) = "read") =>
    LET claimants == Claimants(call.toolName)
        paths == ExtractedPaths
    IN \A a, b \in claimants : \A p \in paths :
         ( /\ a # b
           /\ checkFilesystemAccess(p, "read", ContractOf(b).filesystem) = Null
           /\ checkFilesystemAccess(p, "read", ContractOf(a).filesystem) # Null
           /\ ~DeniedSomewhere(p) )
         => PathViolations(p) = {}

\* C3 witness: Bash, claimed by A and B, reads "/c/x", which only B's readable covers
C3_Witness ==
  /\ call.made /\ call.toolName = Bash
  /\ Claimants(Bash) = {SkillA, SkillB}
  /\ PathConf \in ExtractedPaths
  /\ checkFilesystemAccess(PathConf, "read", ContractOf(SkillB).filesystem) = Null
  /\ checkFilesystemAccess(PathConf, "read", ContractOf(SkillA).filesystem) # Null
  /\ PathViolations(PathConf) = {}

\* C4: with at least one contract loaded and a tool that is not globally denied,
\* each extracted path that matches a denied filesystem pattern of any loaded
\* contract yields exactly one filesystem_denied violation, critical, attributed
\* to the first claiming skill, or to "unknown" when no contract claims the tool.
C4_GlobalFilesystemDenial ==
  ( /\ call.made /\ Len(boxes) >= 1
    /\ ~(DeniedBySome(call.toolName) /\ ~AllowedBySome(call.toolName)) ) =>
    \A p \in ExtractedPaths :
      DeniedSomewhere(p) =>
        LET hits == {i \in ViolationsOfType("filesystem_denied") :
                       violations[i].details.value = p}
        IN /\ Cardinality(hits) = 1
           /\ \A i \in hits : /\ violations[i].severity = "critical"
                              /\ violations[i].skillId = FirstClaimant(call.toolName)

\* C4 witness: the path is denied by a contract that does not claim the tool, and
\* the violation is attributed to the skill that does
C4_Witness ==
  /\ call.made /\ Len(boxes) = 2
  /\ ~Allows(boxes[1], call.toolName) /\ Allows(boxes[2], call.toolName)
  /\ boxes[2].filesystem.denied = <<>>
  /\ PathKey \in ExtractedPaths /\ DeniedSomewhere(PathKey)
  /\ \E i \in ViolationsOfType("filesystem_denied") :
       violations[i].details.value = PathKey /\ violations[i].skillId = boxes[2].skillId

\* C5: the policy of zero contracts has an empty toolIndex, globalDeniedTools,
\* globalDeniedPaths and globalDeniedHosts, and every call against it returns the
\* empty list, with or without a capability cache.
C5_EmptyPolicyPermissive ==
  Len(boxes) = 0 =>
    /\ DOMAIN policy.toolIndex = {}
    /\ DOMAIN policy.globalDeniedTools = {}
    /\ policy.globalDeniedPaths = <<>>
    /\ policy.globalDeniedHosts = <<>>
    /\ call.made => violations = <<>>

\* C5 witness: no contract is loaded and the cache holds a denial for the tool
C5_Witness ==
  /\ Len(boxes) = 0 /\ call.made /\ call.cache.supplied
  /\ call.toolName \in DOMAIN call.cache.entries
  /\ ~call.cache.entries[call.toolName].allowed
  /\ Get(call.params, "path") = Str(PathKey)
  /\ violations = <<>>

\* C9: the keys of globalDeniedTools are the tools that some contract denies and
\* no contract allows, and each entry lists the skill IDs of the contracts that
\* deny the tool, in load order.
C9_GlobalDeniedTools ==
  /\ DOMAIN policy.globalDeniedTools =
       {t \in ToolNames : DeniedBySome(t) /\ ~AllowedBySome(t)}
  /\ \A t \in DOMAIN policy.globalDeniedTools :
       policy.globalDeniedTools[t].denyingSkills = Deniers(t)

\* C9 witness: a tool denied by two contracts of different skills
C9_Witness ==
  \E t \in DOMAIN policy.globalDeniedTools :
    /\ Len(policy.globalDeniedTools[t].denyingSkills) = 2
    /\ policy.globalDeniedTools[t].denyingSkills[1] # policy.globalDeniedTools[t].denyingSkills[2]

\* C10: with at least one contract loaded, a tool that no contract denies or
\* allows, and no capability cache, there is exactly one unlisted_tool violation,
\* high and attributed to "unknown"; a claimed tool never gets one.
C10_UnlistedTool ==
  call.made =>
    /\ ( /\ Len(boxes) >= 1 /\ ~call.cache.supplied
         /\ ~DeniedBySome(call.toolName) /\ ~AllowedBySome(call.toolName) ) =>
         /\ Cardinality(ViolationsOfType("unlisted_tool")) = 1
         /\ \A i \in ViolationsOfType("unlisted_tool") :
              violations[i].severity = "high" /\ violations[i].skillId = UNKNOWN
    /\ AllowedBySome(call.toolName) => ViolationsOfType("unlisted_tool") = {}

\* C10 witness: the policy has capability lists, no cache is passed, and the
\* unclaimed tool is reported as unlisted
C10_Witness ==
  /\ call.made /\ ~call.cache.supplied
  /\ Len(policy.allAllowedCapabilities) > 0 /\ Len(policy.allDeniedCapabilities) > 0
  /\ ~DeniedBySome(call.toolName) /\ ~AllowedBySome(call.toolName)
  /\ violations # <<>> /\ violations[1].type = "unlisted_tool"

\* the skills of the contracts that claim t, in load order
ClaimerList(t) ==
  LET idx == SelectSeq([i \in 1..Len(boxes) |-> i], LAMBDA i : Allows(boxes[i], t))
  IN [k \in 1..Len(idx) |-> boxes[idx[k]].skillId]

\* the write vocabulary, and whether a name contains one of its words in any case
WriteVocabulary ==
  { <<"w", "r", "i", "t", "e">>, <<"c", "r", "e", "a", "t", "e">>, <<"e", "d", "i", "t">>,
    <<"p", "a", "t", "c", "h">>, <<"d", "e", "l", "e", "t", "e">>, <<"m", "o", "v", "e">>,
    <<"c", "o", "p", "y">>, <<"m", "k", "d", "i", "r">>, <<"r", "m">>, <<"s", "a", "v", "e">> }
IsWriteName(t) == \E w \in WriteVocabulary : Includes(ToLowerCase(t), w)

\* C11: for a claimed tool and an extracted path that matches no globally denied
\* pattern, there is a high filesystem violation for the path exactly when
\* checkFilesystemAccess is non-null under every claiming contract; it is a
\* filesystem_write_violation when the tool name contains a word of the write
\* vocabulary in any case and a filesystem_read_violation otherwise, and its
\* skillId is the claiming skills joined by ", ".
C11_PerClaimantFilesystem ==
  (call.made /\ AllowedBySome(call.toolName)) =>
    LET writes == IsWriteName(call.toolName)
        operation == IF writes THEN "write" ELSE "read"
        claimants == Claimants(call.toolName)
    IN \A p \in ExtractedPaths :
         ~DeniedSomewhere(p) =>
           LET high == {i \in PathViolations(p) : violations[i].severity = "high"}
               allRefuse == \A s \in claimants :
                 checkFilesystemAccess(p, operation, ContractOf(s).filesystem) # Null
           IN /\ Cardinality(high) = (IF allRefuse THEN 1 ELSE 0)
              /\ \A i \in high :
                   /\ violations[i].type = (IF writes
                                            THEN "filesystem_write_violation"
                                            ELSE "filesystem_read_violation")
                   /\ violations[i].skillId = Join(ClaimerList(call.toolName), CommaSpace)

\* C11 witness: Bash, claimed by A and B, reads "/e", which neither lets it read
C11_Witness ==
  /\ call.made /\ call.toolName = Bash
  /\ ClaimerList(Bash) = <<SkillA, SkillB>>
  /\ PathEtc \in ExtractedPaths /\ ~DeniedSomewhere(PathEtc)
  /\ \E i \in PathViolations(PathEtc) :
       /\ violations[i].type = "filesystem_read_violation"
       /\ violations[i].skillId = <<"A", ",", " ", "B">>

\* some loaded contract has a capability list that is not empty
HasCapabilityLists ==
  \E i \in 1..Len(boxes) :
    boxes[i].allowedCapabilities # <<>> \/ boxes[i].deniedCapabilities # <<>>

\* no contract names the called tool, and the supplied cache classifies it
UnclaimedAndCached ==
  /\ call.made /\ ~AllowedBySome(call.toolName) /\ ~DeniedBySome(call.toolName)
  /\ call.cache.supplied /\ call.toolName \in DOMAIN call.cache.entries

\* C12: for a tool no contract names, with capability lists in the policy and a
\* cached classification with allowed = false, there is one critical
\* denied_capability violation naming matchedCapability when it is set, one high
\* unlisted_capability violation when it is undefined, and no unlisted_tool.
C12_CapabilityFallback ==
  ( /\ UnclaimedAndCached /\ HasCapabilityLists
    /\ ~call.cache.entries[call.toolName].allowed ) =>
    LET c == call.cache.entries[call.toolName]
        denied == ViolationsOfType("denied_capability")
        unlisted == ViolationsOfType("unlisted_capability")
    IN /\ ViolationsOfType("unlisted_tool") = {}
       /\ c.matchedCapability # NoCapability =>
            /\ Cardinality(denied) = 1 /\ unlisted = {}
            /\ \A i \in denied : /\ violations[i].severity = "critical"
                                 /\ violations[i].message.note = c.matchedCapability
       /\ c.matchedCapability = NoCapability =>
            /\ Cardinality(unlisted) = 1 /\ denied = {}
            /\ \A i \in unlisted : violations[i].severity = "high"

\* C12 witness: the cache says the unclaimed tool matches no capability
C12_Witness ==
  /\ UnclaimedAndCached /\ HasCapabilityLists
  /\ ~call.cache.entries[call.toolName].allowed
  /\ call.cache.entries[call.toolName].matchedCapability = NoCapability
  /\ violations # <<>> /\ violations[1].type = "unlisted_capability"

\* some loaded contract has a denied host pattern that matches h
DeniedHostSomewhere(h) ==
  \E i \in 1..Len(boxes) : \E j \in 1..Len(boxes[i].network.deniedHosts) :
    hostMatches(h, boxes[i].network.deniedHosts[j])

ExtractedHosts == Range(extractHosts(call.params))

\* no capability verdict and no unlisted_tool is reported, and every extracted
\* path or host that a loaded contract denies has its critical violation
AllowedThroughCapability ==
  /\ ViolationsOfType("unlisted_tool") = {}
  /\ ViolationsOfType("denied_capability") = {}
  /\ ViolationsOfType("unlisted_capability") = {}
  /\ \A p \in ExtractedPaths :
       DeniedSomewhere(p) =>
         \E i \in ViolationsOfType("filesystem_denied") :
           violations[i].details.value = p /\ violations[i].severity = "critical"
  /\ \A h \in ExtractedHosts :
       DeniedHostSomewhere(h) =>
         \E i \in ViolationsOfType("network_violation") :
           violations[i].details.value = h /\ violations[i].severity = "critical"

\* C13 as stated: when the cached classification of an unclaimed tool has
\* allowed = true, there is no unlisted_tool, denied_capability or
\* unlisted_capability violation, and globally denied paths and hosts are still
\* reported as critical.
C13_AsStated ==
  (UnclaimedAndCached /\ call.cache.entries[call.toolName].allowed) =>
    AllowedThroughCapability

\* C13 amended: the same, for a policy that has capability lists.
C13_AllowedCapability ==
  ( /\ UnclaimedAndCached /\ HasCapabilityLists
    /\ call.cache.entries[call.toolName].allowed ) =>
    AllowedThroughCapability

\* C13 witness: the tool is allowed through the cache and touches a denied path
\* and a denied host; the two critical violations are all that is returned
C13_Witness ==
  /\ UnclaimedAndCached /\ HasCapabilityLists
  /\ call.cache.entries[call.toolName].allowed
  /\ PathKey \in ExtractedPaths /\ DeniedSomewhere(PathKey)
  /\ HostOnion \in ExtractedHosts /\ DeniedHostSomewhere(HostOnion)
  /\ Len(violations) = 2
  /\ violations[1].type = "filesystem_denied" /\ violations[2].type = "network_violation"

-----------------------------------------------------------------------------
(* Properties of the enforcer, under SpecEnforcer.  While a loadBoxes      *)
(* batch is in flight the boxes run ahead of the policy, so the case of a  *)
(* call is read from the policy it was evaluated against.                  *)

PolicyHasCapabilityLists ==
  Len(policy.allAllowedCapabilities) + Len(policy.allDeniedCapabilities) > 0

\* the policy has contracts and none of them names t
UnclaimedInPolicy(t) ==
  /\ DOMAIN policy.boxes # {}
  /\ t \notin DOMAIN policy.toolIndex
  /\ t \notin DOMAIN policy.globalDeniedTools

\* a step in which enforcer.check runs
CheckStep == call' # call \/ second' # second

C16_RebuildClearsCache ==
  [][ (done'.tick # done.tick /\ done'.op \in {"loadBox", "loadBoxes"}) =>
        ( /\ capabilityCache' = EmptyMap
          /\ policy' = buildGlobalPolicy(boxes')
          /\ \A i, j \in 1..Len(boxes') : boxes'[i].skillId = boxes'[j].skillId => i = j ) ]_vars

\* C16 witness: a loadBoxes of both directories of skill A has completed; one box
\* of A is loaded and the classifications written before are gone
C16_Witness ==
  /\ done.op = "loadBoxes" /\ done.cleared /\ ~loading.active
  /\ loading.dirs = {"dirA", "dirA2"}
  /\ Len(boxes) = 1 /\ boxes[1].skillId = SkillA
  /\ capabilityCache = EmptyMap /\ policy = buildGlobalPolicy(boxes)

\* C17: every check evaluates against a policy built from a box set that holds
\* each loadBoxes batch wholly or not at all.
C17_WholeBatches == call.made => ~done.partial

\* the boxes of skill s in a list of boxes
BoxesOf(bs, s) == {bs[i] : i \in {j \in 1..Len(bs) : bs[j].skillId = s}}

\* the boxes that the valid directories of the last batch hold for skill s
BatchBoxesOf(s) ==
  {ReadBox(d).box : d \in {e \in loading.dirs : ReadBox(e).ok /\ ReadBox(e).box.skillId = s}}

\* C19: loadBoxes never rejects; when it has completed, with no other load in
\* between, every skill that a valid directory of the batch holds has one of
\* the batch's boxes, every other skill has the box it had before, and the
\* policy is buildGlobalPolicy of that set.
C19_LoadBoxesSkipsInvalid ==
  /\ done.op # "rejected"
  /\ (done.op = "loadBoxes" /\ ~loading.active /\ ~loading.foreign) =>
       /\ \A s \in SkillIds :
            IF BatchBoxesOf(s) # {}
            THEN Cardinality(BoxesOf(boxes, s)) = 1 /\ BoxesOf(boxes, s) \subseteq BatchBoxesOf(s)
            ELSE BoxesOf(boxes, s) = BoxesOf(loading.start, s)
       /\ policy = buildGlobalPolicy(boxes)

\* C19 witness: with the box of skill A loaded, a batch of a valid and an
\* invalid directory has completed and added the box of skill B
C19_Witness ==
  /\ done.op = "loadBoxes" /\ ~loading.active /\ ~loading.foreign
  /\ loading.dirs = {"dirB", "dirBad"}
  /\ Len(loading.start) = 1 /\ loading.start[1].skillId = SkillA
  /\ Len(boxes) = 2 /\ boxes[2] = ReadBox("dirB").box
  /\ policy = buildGlobalPolicy(boxes)

-----------------------------------------------------------------------------
(* Properties of the hooks, under SpecPlugin *)

\* C18: in enforce mode before_tool_call blocks, with a reason, exactly when
\* check returned a violation; in monitor mode it never blocks.
C18_BlockOnlyInEnforce ==
  hook.name = "before_tool_call" =>
    /\ mode = "enforce" => /\ hook.block <=> Len(violations) > 0
                           /\ hook.block => hook.blockReason = violations[1].message
    /\ mode = "monitor" => ~hook.block

\* C18 witness: in enforce mode a call with violations is blocked
C18_Witness ==
  /\ hook.name = "before_tool_call" /\ mode = "enforce"
  /\ Len(violations) > 0 /\ hook.block /\ hook.blockReason # NoReason

-----------------------------------------------------------------------------
(* Properties of the per-skill enforcer, under SpecAgentEnd *)

\* the positions of the tool_call_limit_exceeded violations of the last agent_end
LimitViolations ==
  {i \in 1..Len(agentEnd.violations) :
     agentEnd.violations[i].type = "tool_call_limit_exceeded"}

\* the box of the event's skill defines maxToolCalls and the event has more
\* tool calls than that
OverLimit ==
  /\ agentEnd.skillId \in DOMAIN skillBoxes
  /\ skillBoxes[agentEnd.skillId].behavior.maxToolCalls.type = "number"
  /\ Len(agentEnd.toolCalls) > skillBoxes[agentEnd.skillId].behavior.maxToolCalls.num

\* C20: checkAgentEnd returns the per-call violations of the event's tool calls
\* in order, followed by exactly one medium tool_call_limit_exceeded when the
\* box of the skill defines maxToolCalls and the event has more tool calls than
\* that, and by nothing otherwise.
C20_ToolCallLimit ==
  agentEnd.made =>
    LET vs == agentEnd.violations
        perCall == perCallViolations(agentEnd.toolCalls, skillBoxes)
    IN IF OverLimit
       THEN /\ LimitViolations = {Len(vs)}
            /\ Len(vs) = Len(perCall) + 1
            /\ vs[Len(vs)].severity = "medium"
            /\ SubSeq(vs, 1, Len(perCall)) = perCall
       ELSE LimitViolations = {} /\ vs = perCall

-----------------------------------------------------------------------------
(* Properties of the evaluator's result list, under SpecSeveral *)

StepOf(v) ==
  CASE v.type \in {"denied_tool", "unlisted_tool", "denied_capability", "unlisted_capability"} -> 1
    [] v.type = "filesystem_denied" -> 2
    [] v.type = "network_violation" /\ v.severity = "critical" -> 3
    [] v.type \in {"filesystem_read_violation", "filesystem_write_violation"} -> 4
    [] v.type = "network_violation" /\ v.severity = "high" -> 5
    [] OTHER -> 6

\* the position of the violation's path or host in the extracted list, 0 when
\* the violation names none
ExtractionIndex(v) ==
  LET list == IF v.details.kind = "path" THEN extractPaths(call.toolName, call.params)
              ELSE IF v.details.kind = "host" THEN extractHosts(call.params)
              ELSE <<>>
  IN IF \E k \in 1..Len(list) : list[k] = v.details.value
     THEN CHOOSE k \in 1..Len(list) : list[k] = v.details.value
     ELSE 0

\* C22: the violations of one call come in the order of the steps: the
\* tool-level violation, the critical filesystem_denied ones, the critical
\* network_violation ones, the high filesystem ones, the high network_violation
\* ones; inside one step they follow the order of extraction.
C22_StepOrder ==
  call.made =>
    \A i, j \in 1..Len(violations) :
      i < j =>
        /\ StepOf(violations[i]) <= StepOf(violations[j])
        /\ StepOf(violations[j]) \in 2..5
        /\ StepOf(violations[i]) = StepOf(violations[j]) =>
             /\ ExtractionIndex(violations[i]) > 0
             /\ ExtractionIndex(violations[i]) < ExtractionIndex(violations[j])

\* C22 witness: a call of Bash, claimed by skill A, with three paths and two
\* hosts gives five violations, one step after the other although the paths
\* and hosts of the steps alternate
C22_Witness ==
  /\ call.made /\ call.toolName = Bash
  /\ extractPaths(call.toolName, call.params) = <<PathKey, PathEtc, PathConf>>
  /\ extractHosts(call.params) = <<HostOnion, HostEvil>>
  /\ Len(violations) = 5
  /\ [i \in 1..5 |-> StepOf(violations[i])] = <<2, 3, 4, 4, 5>>
  /\ violations[3].details.value = PathEtc /\ violations[4].details.value = PathConf

\* the violations that name the path or host x
ViolationsNaming(kind, x) ==
  {i \in 1..Len(violations) : violations[i].details.kind = kind /\ violations[i].details.value = x}

\* C23: a call reports at most one filesystem violation for each extracted
\* path and at most one network violation for each extracted host, and every
\* violation that names a path or host names an extracted one.
C23_OneViolationPerValue ==
  (call.made /\ Len(violations) > 0) =>
    LET paths == ExtractedPaths
        hosts == ExtractedHosts
    IN /\ \A p \in paths : Cardinality(ViolationsNaming("path", p)) <= 1
       /\ \A h \in hosts : Cardinality(ViolationsNaming("host", h)) <= 1
       /\ \A i \in 1..Len(violations) :
            /\ violations[i].details.kind = "path" => violations[i].details.value \in paths
            /\ violations[i].details.kind = "host" => violations[i].details.value \in hosts

\* C23 witness: Bash is claimed by skill A alone, whose contract both denies
\* /s/.k and does not list it as readable; the path is reported once, as
\* filesystem_denied
C23_Witness ==
  /\ call.made /\ call.toolName = Bash
  /\ Len(boxes) = 1 /\ boxes[1].skillId = SkillA /\ Allows(boxes[1], Bash)
  /\ PathKey \in ExtractedPaths
  /\ pathMatchesAny(PathKey, policy.globalDeniedPaths)
  /\ ~anyContractAllowsPath(PathKey, "read", policy, <<SkillA>>)
  /\ Cardinality(ViolationsNaming("path", PathKey)) = 1
  /\ \E i \in ViolationsNaming("path", PathKey) : violations[i].type = "filesystem_denied"

-----------------------------------------------------------------------------
(* Properties of the log of recent violations, under SpecStatus *)

\* the number of violations the log should hold
Kept == IF recorded < MAX_RECENT THEN recorded ELSE MAX_RECENT

\* C24: the log of recent violations never holds more than 20 entries, and it
\* holds the most recently recorded min(n, 20) violations in the order in
\* which they were recorded.
C24_BoundedFifo ==
  /\ Len(recentViolations) <= 20
  /\ recentViolations = [i \in 1..Kept |-> [id |-> recorded - Kept + i]]

\* C24 witness: 23 violations have gone into the log, which holds the 4th to
\* the 23rd
C24_Witness ==
  /\ recorded = 23 /\ Len(recentViolations) = 20
  /\ recentViolations[1].id = 4 /\ recentViolations[20].id = 23

-----------------------------------------------------------------------------
(* Properties of the policy builder, under Spec *)

\* C25: in every policy built, each skill ID listed under toolIndex[T] is a
\* key of the policy's boxes, and the contract stored under it lists T in its
\* allowedTools.
C25_IndexedSkillsClaim ==
  \A t \in DOMAIN policy.toolIndex :
    \A k \in 1..Len(policy.toolIndex[t]) :
      /\ policy.toolIndex[t][k] \in DOMAIN policy.boxes
      /\ Allows(policy.boxes[policy.toolIndex[t][k]], t)

-----------------------------------------------------------------------------
(* Properties of the hooks' use of the violation list, under SpecPlugin *)

SeverityRank(severity) ==
  CASE severity = "critical" -> 4
    [] severity = "high" -> 3
    [] severity = "medium" -> 2
    [] OTHER -> 1

\* C26: the first violation of every non-empty list that check returns has the
\* highest severity present in the list.
C26_WorstFirst ==
  (call.made /\ Len(violations) > 0) =>
    \A i \in 1..Len(violations) :
      SeverityRank(violations[i].severity) <= SeverityRank(violations[1].severity)

\* C27: a violating tool call that has passed the before_tool_call hook and,
\* when not blocked, the after_tool_call hook has raised exactly one alert.
C27_AlertedOnce ==
  ( /\ call.made /\ Len(violations) > 0 /\ hook.before
    /\ hook.block \/ hook.name = "after_tool_call" ) =>
  hook.alerts = 1

-----------------------------------------------------------------------------
(* Properties of the order in which the reads of loadBoxes complete, under *)
(* SpecEnforcer                                                            *)

\* the orders in which the reads of the directories dirs can complete
CompletionOrders(dirs) ==
  {q \in DistinctSeqs(dirs, Cardinality(dirs)) : Len(q) = Cardinality(dirs)}

\* enforcer.ts lines 56-70: this.boxes after loadBoxes on a new enforcer whose
\* reads completed in the given order
RECURSIVE boxesLoadedInOrder(_)
boxesLoadedInOrder(order) ==
  IF order = <<>> THEN <<>>
  ELSE settleDir(boxesLoadedInOrder(SubSeq(order, 1, Len(order) - 1)),
                 ReadBox(order[Len(order)])).boxes

\* a violation without its id and timestamp is the record the model keeps
\* the call was checked against the policy of one undisturbed loadBoxes call on
\* a new enforcer
CheckedAfterOneBatch ==
  /\ call.made /\ hook = NoHook
  /\ done.op = "loadBoxes" /\ ~loading.active /\ ~loading.foreign
  /\ loading.start = <<>> /\ loading.dirs # {}

\* C28: for a fixed set of skill directories, what check returns (every field
\* of every violation but id and timestamp) is the same for every order in
\* which the reads of loadBoxes complete
C28_OrderIndependent ==
  CheckedAfterOneBatch =>
    \A order \in CompletionOrders(loading.dirs) :
      check(call.toolName, call.params, buildGlobalPolicy(boxesLoadedInOrder(order)),
            call.cache.entries) = violations

-----------------------------------------------------------------------------
(* Properties of the capability cache under classifications in flight,     *)
(* under SpecClassify                                                      *)

-----------------------------------------------------------------------------
(* Properties of a loadBox call that fails, under SpecEnforcer             *)

\* C30: when loadBox fails to read or parse its contract, the call rejects and
\* boxes, policy and capability cache are what they were before the call
C30_FailedLoadChangesNothing ==
  [][ \A dir \in SkillDirs :
        (~ReadBox(dir).ok /\ LoadBox(dir)) =>
          /\ done'.op = "loadBoxRejected"
          /\ boxes' = boxes /\ policy' = policy /\ capabilityCache' = capabilityCache
    ]_vars

\* a loadBox call has rejected on an enforcer that holds boxes and cache entries
C30_Witness ==
  /\ done.op = "loadBoxRejected"
  /\ Len(boxes) > 0 /\ Bash \in DOMAIN policy.toolIndex
  /\ capabilityCache # EmptyMap

====
